---- MODULE Spec2Model ----
(***************************************************************************)
(* Control-flow-graph construction and variable tracking of                *)
(* lightning-search (src/src/cfg_builder.py, src/src/dataflow.py,          *)
(* src/src/core/variable_extractor.py, src/src/core/cfg_analyzer.py).      *)
(*                                                                         *)
(* Syntax nodes are concrete syntax trees shaped as the Python grammar of  *)
(* the parsing collaborator delivers them: every node has a type tag, its  *)
(* children in source order (keyword and punctuation tokens included) and  *)
(* named fields that point at children.  The text of a node is the         *)
(* sequence of the tokens it spans.                                        *)
(***************************************************************************)
EXTENDS Integers, Sequences, FiniteSets, TLC

VARIABLES cfgs, builder, th, paths, flow

vars == <<cfgs, builder, th, paths, flow>>

(***************************************************************************)
(* Bounds of the model.                                                    *)
(***************************************************************************)
MaxBlocks == 2      \* blocks of a hand-assembled graph
MaxEdges == 3       \* edges of a hand-assembled graph
MaxSize == 4        \* statements in a generated function body
ParSize1 == 3       \* statements in the body the first parallel build works on
ParSize2 == 1       \* statements in the body the second parallel build works on
MaxAnalyses == 2    \* calls of DataFlowAnalyzer.analyze_function in a run
MaxBuilds == 3      \* calls of build_from_ast one after the other
MaxFunctions == 2   \* top-level definitions of an analysed file

None == -1

InSeq(x, s) == \E i \in 1..Len(s) : s[i] = x

SeqToSet(s) == {s[i] : i \in 1..Len(s)}

(***************************************************************************)
(* Syntax nodes.                                                           *)
(***************************************************************************)
NoFields ==
  [name |-> 0, parameters |-> 0, body |-> 0, condition |-> 0,
   consequence |-> 0, alternative |-> 0, left |-> 0, right |-> 0]

NoNode ==
  [type |-> "None", text |-> "", line |-> 0, children |-> <<>>, fields |-> NoFields]

Leaf(type, text, line) ==
  [type |-> type, text |-> text, line |-> line, children |-> <<>>, fields |-> NoFields]

Tok(t, line) == Leaf(t, t, line)

Ident(name, line) == Leaf("identifier", name, line)

Integer(v, line) == Leaf("integer", v, line)

Inner(type, line, children, fields) ==
  [type |-> type, text |-> "", line |-> line, children |-> children, fields |-> fields]

child_by_field_name(node, f) ==
  IF node.fields[f] = 0 THEN NoNode ELSE node.children[node.fields[f]]

Present(node) == node.type # "None"

RECURSIVE Text(_)
Text(node) ==
  IF node.children = <<>>
  THEN <<node.text>>
  ELSE LET RECURSIVE cat(_)
           cat(i) == IF i > Len(node.children) THEN <<>>
                     ELSE Text(node.children[i]) \o cat(i + 1)
       IN cat(1)

\* the text of a leaf whose bytes are no valid UTF-8
Undecodable == "\\xff"

\* code[node.start_byte:node.end_byte].decode('utf8') returns
Decodes(node) == ~InSeq(Undecodable, Text(node))

RECURSIVE LastLine(_)
LastLine(node) ==
  IF node.children = <<>> THEN node.line
  ELSE LastLine(node.children[Len(node.children)])

AssignStmt(x, rhs, l) ==
  Inner("expression_statement", l,
        <<Inner("assignment", l, <<Ident(x, l), Tok("=", l), rhs>>,
                [NoFields EXCEPT !.left = 1, !.right = 3])>>,
        NoFields)

ReturnStmt(e, l) == Inner("return_statement", l, <<Tok("return", l), e>>, NoFields)

PassStmt(l) == Inner("pass_statement", l, <<Tok("pass", l)>>, NoFields)

BreakStmt(l) == Inner("break_statement", l, <<Tok("break", l)>>, NoFields)

ContinueStmt(l) == Inner("continue_statement", l, <<Tok("continue", l)>>, NoFields)

CallStmt(f, arg, l) ==
  Inner("expression_statement", l,
        <<Inner("call", l,
                <<Ident(f, l),
                  Inner("argument_list", l,
                        <<Tok("(", l), Ident(arg, l), Tok(")", l)>>, NoFields)>>,
                NoFields)>>,
        NoFields)

\* an expression statement that is a string literal of undecodable bytes
BadStmt(l) ==
  Inner("expression_statement", l, <<Leaf("string", Undecodable, l)>>, NoFields)

Block(stmts, l) == Inner("block", l, stmts, NoFields)

ElseClause(body, l) ==
  Inner("else_clause", l, <<Tok("else", l), Tok(":", l), body>>,
        [NoFields EXCEPT !.body = 3])

ElifClause(cond, cons, l) ==
  Inner("elif_clause", l, <<Tok("elif", l), cond, Tok(":", l), cons>>,
        [NoFields EXCEPT !.condition = 2, !.consequence = 4])

IfStmt(cond, cons, alts, l) ==
  Inner("if_statement", l, <<Tok("if", l), cond, Tok(":", l), cons>> \o alts,
        [NoFields EXCEPT !.condition = 2, !.consequence = 4,
                         !.alternative = IF alts = <<>> THEN 0 ELSE 5])

WhileStmt(cond, body, l) ==
  Inner("while_statement", l, <<Tok("while", l), cond, Tok(":", l), body>>,
        [NoFields EXCEPT !.condition = 2, !.body = 4])

ForStmt(target, iter, body, l) ==
  Inner("for_statement", l,
        <<Tok("for", l), target, Tok("in", l), iter, Tok(":", l), body>>,
        [NoFields EXCEPT !.left = 2, !.right = 4, !.body = 6])

Parameters(names, l) ==
  Inner("parameters", l,
        <<Tok("(", l)>> \o [i \in 1..Len(names) |-> Ident(names[i], l)]
            \o <<Tok(")", l)>>,
        NoFields)

FunctionDef(fname, params, body) ==
  Inner("function_definition", 1,
        <<Tok("def", 1), Ident(fname, 1), Parameters(params, 1), Tok(":", 1)>>
            \o (IF Present(body) THEN <<body>> ELSE <<>>),
        [NoFields EXCEPT !.name = 2, !.parameters = 3,
                         !.body = IF Present(body) THEN 5 ELSE 0])

(***************************************************************************)
(* Flow-graph entities: BasicBlock and ControlFlowGraph.                   *)
(***************************************************************************)
\* a block that starts with the statements of the block with its id in the
\* graph the builder worked on before
BasicBlockReused(id, block_type) ==
  [id |-> id,
   statements |-> IF builder.current_cfg \in DOMAIN cfgs
                     /\ id \in DOMAIN cfgs[builder.current_cfg].blocks
                  THEN cfgs[builder.current_cfg].blocks[id].statements
                  ELSE <<>>,
   successors |-> <<>>, predecessors |-> <<>>, block_type |-> block_type]

BasicBlock(id, block_type) ==
  [id |-> id, statements |-> <<>>, successors |-> <<>>, predecessors |-> <<>>,
   block_type |-> block_type]

add_statement(block, stmt) == [block EXCEPT !.statements = Append(@, stmt)]

\* add_successor without the membership test
add_successor_again(block, block_id) == [block EXCEPT !.successors = Append(@, block_id)]

add_successor(block, block_id) ==
  IF InSeq(block_id, block.successors) THEN block
  ELSE [block EXCEPT !.successors = Append(@, block_id)]

add_predecessor(block, block_id) ==
  IF InSeq(block_id, block.predecessors) THEN block
  ELSE [block EXCEPT !.predecessors = Append(@, block_id)]

\* a return statement that leaves the tag of its block alone
mark_return_keep_tag(block, stmt) == add_statement(block, stmt)

\* a return statement: its text goes to the block, and the block is retagged
mark_return(block, stmt) == [add_statement(block, stmt) EXCEPT !.block_type = "return"]

\* a graph whose counter goes on where the graph made before it stopped
ControlFlowGraphSharedCounter(function_name) ==
  [function_name |-> function_name, blocks |-> [i \in {} |-> 0],
   entry_block |-> None, exit_blocks |-> <<>>,
   next_block_id |-> IF cfgs = <<>> THEN 0 ELSE cfgs[Len(cfgs)].next_block_id]

ControlFlowGraph(function_name) ==
  [function_name |-> function_name, blocks |-> [i \in {} |-> 0],
   entry_block |-> None, exit_blocks |-> <<>>, next_block_id |-> 0]

create_block(cfg, block_type) ==
  [cfg EXCEPT
     !.blocks = [i \in (DOMAIN cfg.blocks) \cup {cfg.next_block_id} |->
                   IF i = cfg.next_block_id
                   THEN BasicBlock(cfg.next_block_id, block_type)
                   ELSE cfg.blocks[i]],
     !.next_block_id = @ + 1]

\* add_edge that records the successor and forgets the predecessor
add_edge_forward_only(cfg, from_block, to_block) ==
  IF from_block \in DOMAIN cfg.blocks /\ to_block \in DOMAIN cfg.blocks
  THEN [cfg EXCEPT !.blocks[from_block] = add_successor(@, to_block)]
  ELSE cfg

add_edge(cfg, from_block, to_block) ==
  IF from_block \in DOMAIN cfg.blocks /\ to_block \in DOMAIN cfg.blocks
  THEN LET c1 == [cfg EXCEPT !.blocks[from_block] = add_successor(@, to_block)]
       IN [c1 EXCEPT !.blocks[to_block] = add_predecessor(@, from_block)]
  ELSE cfg

\* a search that follows the first successor only
RECURSIVE dfs_first_successor(_, _, _, _)
dfs_first_successor(cfg, current, path, visited) ==
  LET p == Append(path, current)
      succ == cfg.blocks[current].successors
  IN IF InSeq(current, cfg.exit_blocks) THEN <<p>>
     ELSE IF succ # <<>> /\ succ[1] \notin visited
     THEN dfs_first_successor(cfg, succ[1], p, visited \cup {current})
     ELSE <<>>

RECURSIVE dfs(_, _, _, _)
dfs(cfg, current, path, visited) ==
  LET p == Append(path, current)
      succ == cfg.blocks[current].successors
      RECURSIVE each(_)
      each(i) ==
        IF i > Len(succ) THEN <<>>
        ELSE (IF succ[i] \notin visited
              THEN dfs(cfg, succ[i], p, visited \cup {current})
              ELSE <<>>) \o each(i + 1)
  IN IF InSeq(current, cfg.exit_blocks) THEN <<p>> ELSE each(1)

\* a descent whose visited set is one set shared by all branches
RECURSIVE dfs_shared(_, _, _, _)
dfs_shared(cfg, current, path, visited) ==
  LET p == Append(path, current)
      succ == cfg.blocks[current].successors
      RECURSIVE each(_, _)
      each(i, v) ==
        IF i > Len(succ) THEN [paths |-> <<>>, visited |-> v]
        ELSE IF succ[i] \notin v
        THEN LET r == dfs_shared(cfg, succ[i], p, v \cup {current})
                 rest == each(i + 1, r.visited)
             IN [paths |-> r.paths \o rest.paths, visited |-> rest.visited]
        ELSE each(i + 1, v)
  IN IF InSeq(current, cfg.exit_blocks) THEN [paths |-> <<p>>, visited |-> visited]
     ELSE each(1, visited)

get_all_paths_shared(cfg) ==
  IF cfg.entry_block = None THEN <<>>
  ELSE dfs_shared(cfg, cfg.entry_block, <<>>, {}).paths

get_all_paths(cfg) ==
  IF cfg.entry_block = None THEN <<>> ELSE dfs(cfg, cfg.entry_block, <<>>, {})

RECURSIVE SumLen(_, _)
SumLen(blocks, ids) ==
  IF ids = {} THEN 0
  ELSE LET i == CHOOSE x \in ids : TRUE
       IN Len(blocks[i].successors) + SumLen(blocks, ids \ {i})

EdgeCount(cfg) == SumLen(cfg.blocks, DOMAIN cfg.blocks)

get_stats(cfg) ==
  [function |-> cfg.function_name,
   blocks |-> Cardinality(DOMAIN cfg.blocks),
   edges |-> EdgeCount(cfg),
   paths |-> Len(get_all_paths(cfg)),
   exit_blocks |-> Len(cfg.exit_blocks)]

Complexity(cfg) ==
  LET stats == get_stats(cfg) IN stats.edges - stats.blocks + 2

(***************************************************************************)
(* Function nodes the builder is run on: every body of at most n           *)
(* statements made of plain statements, pass, return, if (with and without *)
(* else or elif), while and for, laid out on consecutive source lines.     *)
(***************************************************************************)
StatementTypes ==
  {"expression_statement", "return_statement", "pass_statement",
   "break_statement", "continue_statement", "if_statement",
   "while_statement", "for_statement"}

RECURSIVE Size(_)
Size(node) ==
  LET RECURSIVE sum(_)
      sum(i) == IF i > Len(node.children) THEN 0
                ELSE Size(node.children[i]) + sum(i + 1)
  IN (IF node.type \in StatementTypes THEN 1 ELSE 0) + sum(1)

SimpleAt(l) ==
  {AssignStmt("b", Ident("a", l), l), ReturnStmt(Ident("b", l), l), PassStmt(l)}

RECURSIVE StmtsAt(_, _), BodiesAt(_, _)
StmtsAt(l, n) ==
  LET cond == Ident("c", l)
      inner(k) == {Block(b, l + 1) : b \in BodiesAt(l + 1, k) \ {<<>>}}
      elseOf(b1, k) ==
        {ElseClause(Block(b2, LastLine(b1) + 2), LastLine(b1) + 1) :
           b2 \in BodiesAt(LastLine(b1) + 2, k) \ {<<>>}}
      elifOf(b1, k) ==
        {ElifClause(Ident("d", LastLine(b1) + 1), Block(b2, LastLine(b1) + 2),
                    LastLine(b1) + 1) :
           b2 \in BodiesAt(LastLine(b1) + 2, k) \ {<<>>}}
  IN SimpleAt(l)
     \cup (IF n < 2 THEN {}
           ELSE {IfStmt(cond, b, <<>>, l) : b \in inner(n - 1)}
                \cup {WhileStmt(cond, b, l) : b \in inner(n - 1)}
                \cup {ForStmt(Ident("i", l), Ident("a", l), b, l) : b \in inner(n - 1)})
     \cup (IF n < 3 THEN {}
           ELSE UNION {{IfStmt(cond, b1, <<e>>, l) :
                          e \in elseOf(b1, n - 1 - Size(b1))
                               \cup elifOf(b1, n - 1 - Size(b1))} :
                       b1 \in inner(n - 2)})

BodiesAt(l, n) ==
  {<<>>}
  \cup (IF n < 1 THEN {}
        ELSE UNION {{<<s>> \o r : r \in BodiesAt(LastLine(s) + 1, n - Size(s))} :
                    s \in StmtsAt(l, n)})

Functions(n) ==
  {FunctionDef("f", <<"a">>, NoNode)}
  \cup {FunctionDef("f", <<"a">>, Block(b, 2)) : b \in BodiesAt(2, n)}

\* the function with the single parameter a and the body  b = a ; return b
ExampleB ==
  FunctionDef("f", <<"a">>,
              Block(<<AssignStmt("b", Ident("a", 2), 2), ReturnStmt(Ident("b", 3), 3)>>, 2))

\* a function g with an if/else, a while loop and a for loop that returns
Branchy ==
  FunctionDef("g", <<"a">>,
    Block(<<IfStmt(Ident("c", 2), Block(<<AssignStmt("b", Ident("a", 3), 3)>>, 3),
                   <<ElseClause(Block(<<PassStmt(5)>>, 5), 4)>>, 2),
            WhileStmt(Ident("c", 6), Block(<<PassStmt(7)>>, 7), 6),
            ForStmt(Ident("i", 8), Ident("a", 8),
                    Block(<<ReturnStmt(Ident("b", 9), 9)>>, 9), 8)>>, 2))

\* the functions whose body is one while or for loop over one or two plain
\* statements, break and continue among them
LoopExamples ==
  LET plain(l) == {BreakStmt(l), ContinueStmt(l), AssignStmt("b", Ident("a", l), l),
                   PassStmt(l)}
      bodies == {<<s>> : s \in plain(3)} \cup {<<s1, s2>> : s1 \in plain(3), s2 \in plain(4)}
  IN {FunctionDef("f", <<"a">>, Block(<<WhileStmt(Ident("c", 2), Block(b, 3), 2)>>, 2)) :
        b \in bodies}
     \cup {FunctionDef("f", <<"a">>,
                       Block(<<ForStmt(Ident("i", 2), Ident("a", 2), Block(b, 3), 2)>>, 2)) :
            b \in bodies}

\* a method with the parameters self and a and the body  b = self ; return self
Method ==
  FunctionDef("m", <<"self", "a">>,
              Block(<<AssignStmt("b", Ident("self", 2), 2),
                      ReturnStmt(Ident("self", 3), 3)>>, 2))

\* the function without parameters whose body is  y = 1
ExampleC == FunctionDef("f", <<>>, Block(<<AssignStmt("y", Integer("1", 2), 2)>>, 2))

(***************************************************************************)
(* CFGBuilder.  A thread runs build_from_ast on the function nodes of its  *)
(* todo list.  The recursion of _process_node is kept as a stack of        *)
(* frames; a frame holds the locals of one call: the node, the graph read  *)
(* from self.current_cfg on entry, current_block_id, and the blocks the    *)
(* call created.  ret is the value the last finished call returned.        *)
(***************************************************************************)
Frame(node, cur) ==
  [op |-> "call", node |-> node, cfg |-> 0, cur |-> cur, i |-> 0, last |-> None,
   b1 |-> None, b2 |-> None, b3 |-> None]

\* results are the graphs the calls have returned and nodes the function
\* nodes they were built from; file, name and found belong to a call of
\* CFGAnalyzer.analyze_file or analyze_function
Thread(todo) ==
  [todo |-> todo, status |-> "idle", fn |-> NoNode, cfg |-> 0, stack |-> <<>>,
   ret |-> None, results |-> <<>>, nodes |-> <<>>,
   file |-> NoNode, name |-> "", phase |-> "none", found |-> None]

Top(t) == th[t].stack[Len(th[t].stack)]

Calling(t, type) ==
  /\ th[t].status = "running"
  /\ th[t].stack # <<>>
  /\ Top(t).op = "call"
  /\ Top(t).node.type = type

Waiting(t, op) ==
  /\ th[t].status = "running"
  /\ th[t].stack # <<>>
  /\ Top(t).op = op

Pop(stack) == SubSeq(stack, 1, Len(stack) - 1)

SetTop(stack, frame) == [stack EXCEPT ![Len(stack)] = frame]

\* return v from the call on top of the stack
Return(thr, v) == [thr EXCEPT !.stack = Pop(@), !.ret = v]

\* the call on top of the stack goes on as frame and calls _process_node(node, code, cur)
Call(thr, frame, node, cur) ==
  [thr EXCEPT !.stack = Append(SetTop(@, frame), Frame(node, cur))]

\* an exception that ends the walk over the function nodes as well
RaiseOut(thr) ==
  [thr EXCEPT !.status = "raised", !.stack = <<>>, !.ret = None, !.todo = <<>>]

\* an exception leaves build_from_ast
Raise(thr) ==
  [thr EXCEPT !.status = "raised", !.stack = <<>>, !.ret = None, !.todo = Tail(@)]

\* build_from_ast returns the graph gid
Done(thr, gid) ==
  [thr EXCEPT !.status = "done", !.todo = Tail(@), !.results = Append(@, gid),
              !.nodes = Append(@, thr.fn)]

SkippedTypes == {":", "{", "}", "INDENT", "DEDENT"}

\* CFGBuilder.__init__
CFGBuilder == [current_cfg |-> None, current_block |-> <<>>]

FunctionName(function_node) ==
  LET name_node == child_by_field_name(function_node, "name")
  IN IF ~Present(name_node) THEN "unknown" ELSE name_node.text

\* build_from_ast up to the call of _process_node on the body
BuildFromAst(t) ==
  /\ th[t].status \in {"idle", "done", "raised"}
  /\ th[t].todo # <<>>
  /\ LET function_node == Head(th[t].todo)
         gid == Len(cfgs) + 1
         c0 == ControlFlowGraph(FunctionName(function_node))
         entry == c0.next_block_id
         cfg == [create_block(c0, "entry") EXCEPT !.entry_block = entry]
         body == child_by_field_name(function_node, "body")
         thr == [th[t] EXCEPT !.fn = function_node, !.cfg = gid, !.ret = None]
     IN IF ~Decodes(child_by_field_name(function_node, "name"))
        THEN /\ th' = [th EXCEPT ![t] = Raise([@ EXCEPT !.fn = function_node, !.cfg = 0])]
             /\ UNCHANGED <<cfgs, builder>>
        ELSE /\ cfgs' = Append(cfgs, cfg)
             /\ builder' = [current_cfg |-> gid, current_block |-> <<gid, entry>>]
             /\ th' = [th EXCEPT ![t] =
                        IF Present(body)
                        THEN [thr EXCEPT !.status = "running",
                                         !.stack = <<Frame(body, entry)>>]
                        ELSE Done(thr, gid)]
  /\ UNCHANGED <<paths, flow>>

\* _process_node on a block: before the loop over the children
ProcessBlock(t) ==
  /\ Calling(t, "block")
  /\ th' = [th EXCEPT ![t].stack =
              SetTop(@, [Top(t) EXCEPT !.op = "block", !.cfg = builder.current_cfg,
                                       !.i = 1, !.last = Top(t).cur])]
  /\ UNCHANGED <<cfgs, builder, paths, flow>>

\* one turn of the loop over the children of a block
BlockNext(t) ==
  /\ Waiting(t, "block")
  /\ LET f == Top(t)
     IN th' = [th EXCEPT ![t] =
                IF f.i > Len(f.node.children) THEN Return(@, f.last)
                ELSE IF f.node.children[f.i].type \in SkippedTypes
                THEN [@ EXCEPT !.stack = SetTop(@, [f EXCEPT !.i = f.i + 1])]
                ELSE Call(@, [f EXCEPT !.op = "block_child"], f.node.children[f.i], f.last)]
  /\ UNCHANGED <<cfgs, builder, paths, flow>>

\* the child of a block has been processed and the loop goes on after a return
BlockChildGoesOn(t) ==
  /\ Waiting(t, "block_child")
  /\ LET f == Top(t)
         last == IF th[t].ret = None THEN f.last ELSE th[t].ret
     IN th' = [th EXCEPT ![t].stack =
                SetTop(@, [f EXCEPT !.op = "block", !.last = last, !.i = f.i + 1])]
  /\ UNCHANGED <<cfgs, builder, paths, flow>>

\* the child of a block has been processed
BlockChild(t) ==
  /\ Waiting(t, "block_child")
  /\ LET f == Top(t)
     IN th' = [th EXCEPT ![t] =
                IF @.ret = None THEN Return(@, None)
                ELSE [@ EXCEPT !.stack = SetTop(@, [f EXCEPT !.op = "block", !.last = th[t].ret,
                                                            !.i = f.i + 1])]]
  /\ UNCHANGED <<cfgs, builder, paths, flow>>

ProcessReturn(t) ==
  /\ Calling(t, "return_statement")
  /\ LET f == Top(t)
         gid == builder.current_cfg
         stmt == Text(f.node)
     IN IF Decodes(f.node) /\ f.cur \in DOMAIN cfgs[gid].blocks
        THEN /\ cfgs' = [cfgs EXCEPT ![gid].blocks[f.cur] = mark_return(@, stmt)]
             /\ th' = [th EXCEPT ![t] = Return(@, None)]
        ELSE /\ cfgs' = cfgs
             /\ th' = [th EXCEPT ![t] = Raise(@)]
  /\ UNCHANGED <<builder, paths, flow>>

ControlTypes == {"block", "if_statement", "while_statement", "for_statement", "return_statement"}

\* a regular statement whose text is appended even when it is pass
ProcessStatementAll(t) ==
  /\ th[t].status = "running"
  /\ th[t].stack # <<>>
  /\ Top(t).op = "call"
  /\ Top(t).node.type \notin ControlTypes
  /\ LET f == Top(t)
         gid == builder.current_cfg
     IN IF Decodes(f.node) /\ f.cur \in DOMAIN cfgs[gid].blocks
        THEN /\ cfgs' = [cfgs EXCEPT ![gid].blocks[f.cur] = add_statement(@, Text(f.node))]
             /\ th' = [th EXCEPT ![t] = Return(@, f.cur)]
        ELSE /\ cfgs' = cfgs
             /\ th' = [th EXCEPT ![t] = Raise(@)]
  /\ UNCHANGED <<builder, paths, flow>>

ProcessStatement(t) ==
  /\ th[t].status = "running"
  /\ th[t].stack # <<>>
  /\ Top(t).op = "call"
  /\ Top(t).node.type \notin ControlTypes
  /\ LET f == Top(t)
         gid == builder.current_cfg
         stmt == Text(f.node)
     IN IF ~Decodes(f.node)
        THEN /\ cfgs' = cfgs
             /\ th' = [th EXCEPT ![t] = Raise(@)]
        ELSE IF stmt # <<>> /\ stmt \notin {<<":">>, <<"pass">>}
        THEN IF f.cur \in DOMAIN cfgs[gid].blocks
             THEN /\ cfgs' = [cfgs EXCEPT ![gid].blocks[f.cur] = add_statement(@, stmt)]
                  /\ th' = [th EXCEPT ![t] = Return(@, f.cur)]
             ELSE /\ cfgs' = cfgs
                  /\ th' = [th EXCEPT ![t] = Raise(@)]
        ELSE /\ cfgs' = cfgs
             /\ th' = [th EXCEPT ![t] = Return(@, f.cur)]
  /\ UNCHANGED <<builder, paths, flow>>

\* _process_if after the consequence: the alternative, or the edge false -> merge
IfAlternative(cfg, thr, f) ==
  LET alternative == child_by_field_name(f.node, "alternative")
  IN IF Present(alternative)
     THEN [cfg |-> cfg, thr |-> Call(thr, [f EXCEPT !.op = "if_false"], alternative, f.b2)]
     ELSE [cfg |-> add_edge(cfg, f.b2, f.b3), thr |-> Return(thr, f.b3)]

\* _process_if up to the call of _process_node on the consequence
ProcessIf(t) ==
  /\ Calling(t, "if_statement")
  /\ LET gid == builder.current_cfg
         c0 == cfgs[gid]
         true_block == c0.next_block_id
         false_block == c0.next_block_id + 1
         merge_block == c0.next_block_id + 2
         c3 == create_block(create_block(create_block(c0, "if_true"), "if_false"), "normal")
         f == [Top(t) EXCEPT !.op = "if_true", !.cfg = gid, !.b1 = true_block,
                             !.b2 = false_block, !.b3 = merge_block]
         condition == child_by_field_name(f.node, "condition")
         consequence == child_by_field_name(f.node, "consequence")
     IN IF Present(condition) /\ (~Decodes(condition) \/ f.cur \notin DOMAIN c3.blocks)
        THEN /\ cfgs' = [cfgs EXCEPT ![gid] = c3]
             /\ th' = [th EXCEPT ![t] = Raise(@)]
        ELSE LET c4 == IF Present(condition)
                       THEN [c3 EXCEPT !.blocks[f.cur] =
                               add_statement(@, <<"if">> \o Text(condition))]
                       ELSE c3
                 c5 == add_edge(add_edge(c4, f.cur, true_block), f.cur, false_block)
                 alt == IfAlternative(c5, th[t], f)
             IN IF Present(consequence)
                THEN /\ cfgs' = [cfgs EXCEPT ![gid] = c5]
                     /\ th' = [th EXCEPT ![t] = Call(@, f, consequence, true_block)]
                ELSE /\ cfgs' = [cfgs EXCEPT ![gid] = alt.cfg]
                     /\ th' = [th EXCEPT ![t] = alt.thr]
  /\ UNCHANGED <<builder, paths, flow>>

\* the consequence has been processed
IfTrue(t) ==
  /\ Waiting(t, "if_true")
  /\ LET f == Top(t)
         last_true == th[t].ret
         c1 == IF last_true # None THEN add_edge(cfgs[f.cfg], last_true, f.b3)
               ELSE cfgs[f.cfg]
         alt == IfAlternative(c1, th[t], f)
     IN /\ cfgs' = [cfgs EXCEPT ![f.cfg] = alt.cfg]
        /\ th' = [th EXCEPT ![t] = alt.thr]
  /\ UNCHANGED <<builder, paths, flow>>

\* the alternative has been processed
IfFalse(t) ==
  /\ Waiting(t, "if_false")
  /\ LET f == Top(t)
         last_false == th[t].ret
     IN /\ cfgs' = [cfgs EXCEPT ![f.cfg] =
                      IF last_false # None THEN add_edge(@, last_false, f.b3) ELSE @]
        /\ th' = [th EXCEPT ![t] = Return(@, f.b3)]
  /\ UNCHANGED <<builder, paths, flow>>

\* the three blocks of a loop and the edge into its header
LoopEntered(c0, cur, header_type) ==
  add_edge(create_block(create_block(create_block(c0, header_type), "loop_body"), "normal"),
           cur, c0.next_block_id)

\* the blocks of a loop whose header has no edge to the loop exit
LoopBlocksNoExit(c0, cur, header_type, header_stmt) ==
  LET loop_header == c0.next_block_id
      c4 == LoopEntered(c0, cur, header_type)
      c5 == IF header_stmt # <<>>
            THEN [c4 EXCEPT !.blocks[loop_header] = add_statement(@, header_stmt)]
            ELSE c4
  IN add_edge(c5, loop_header, c0.next_block_id + 1)

\* the three blocks and the edges of a loop; header_stmt is the header's statement
LoopBlocks(c0, cur, header_type, header_stmt) ==
  LET loop_header == c0.next_block_id
      loop_body == c0.next_block_id + 1
      loop_exit == c0.next_block_id + 2
      c4 == LoopEntered(c0, cur, header_type)
      c5 == IF header_stmt # <<>>
            THEN [c4 EXCEPT !.blocks[loop_header] = add_statement(@, header_stmt)]
            ELSE c4
  IN add_edge(add_edge(c5, loop_header, loop_body), loop_header, loop_exit)

\* _process_while up to the call of _process_node on the body
ProcessWhile(t) ==
  /\ Calling(t, "while_statement")
  /\ LET gid == builder.current_cfg
         c0 == cfgs[gid]
         f == [Top(t) EXCEPT !.op = "while_body", !.cfg = gid, !.b1 = c0.next_block_id,
                             !.b2 = c0.next_block_id + 1, !.b3 = c0.next_block_id + 2]
         condition == child_by_field_name(f.node, "condition")
         body == child_by_field_name(f.node, "body")
         stmt == IF Present(condition) THEN <<"while">> \o Text(condition) ELSE <<>>
     IN IF Present(condition) /\ ~Decodes(condition)
        THEN /\ cfgs' = [cfgs EXCEPT ![gid] = LoopEntered(c0, f.cur, "loop_header")]
             /\ th' = [th EXCEPT ![t] = Raise(@)]
        ELSE /\ cfgs' = [cfgs EXCEPT ![gid] = LoopBlocks(c0, f.cur, "loop_header", stmt)]
             /\ th' = [th EXCEPT ![t] =
                         IF Present(body) THEN Call(@, f, body, f.b2) ELSE Return(@, f.b3)]
  /\ UNCHANGED <<builder, paths, flow>>

\* the body of a while loop has been processed and no back-edge is added
WhileBodyNoBackEdge(t) ==
  /\ Waiting(t, "while_body")
  /\ cfgs' = cfgs
  /\ th' = [th EXCEPT ![t] = Return(@, Top(t).b3)]
  /\ UNCHANGED <<builder, paths, flow>>

\* the body of a while loop has been processed
WhileBody(t) ==
  /\ Waiting(t, "while_body")
  /\ LET f == Top(t)
         last_body == th[t].ret
     IN /\ cfgs' = [cfgs EXCEPT ![f.cfg] =
                      IF last_body # None THEN add_edge(@, last_body, f.b1) ELSE @]
        /\ th' = [th EXCEPT ![t] = Return(@, f.b3)]
  /\ UNCHANGED <<builder, paths, flow>>

\* _process_for up to the call of _process_node on the body
ProcessFor(t) ==
  /\ Calling(t, "for_statement")
  /\ LET gid == builder.current_cfg
         c0 == cfgs[gid]
         f == [Top(t) EXCEPT !.op = "for_body", !.cfg = gid, !.b1 = c0.next_block_id,
                             !.b2 = c0.next_block_id + 1, !.b3 = c0.next_block_id + 2]
         left == child_by_field_name(f.node, "left")
         right == child_by_field_name(f.node, "right")
         body == child_by_field_name(f.node, "body")
         stmt == IF Present(left) /\ Present(right)
                 THEN <<"for">> \o Text(left) \o <<"in">> \o Text(right)
                 ELSE <<"for", "loop">>
     IN IF Present(left) /\ Present(right) /\ ~(Decodes(left) /\ Decodes(right))
        THEN /\ cfgs' = [cfgs EXCEPT ![gid] = LoopEntered(c0, f.cur, "for_header")]
             /\ th' = [th EXCEPT ![t] = Raise(@)]
        ELSE /\ cfgs' = [cfgs EXCEPT ![gid] = LoopBlocks(c0, f.cur, "for_header", stmt)]
             /\ th' = [th EXCEPT ![t] =
                         IF Present(body) THEN Call(@, f, body, f.b2) ELSE Return(@, f.b3)]
  /\ UNCHANGED <<builder, paths, flow>>

\* the body of a for loop has been processed
ForBody(t) ==
  /\ Waiting(t, "for_body")
  /\ LET f == Top(t)
         last_body == th[t].ret
     IN /\ cfgs' = [cfgs EXCEPT ![f.cfg] =
                      IF last_body # None THEN add_edge(@, last_body, f.b1) ELSE @]
        /\ th' = [th EXCEPT ![t] = Return(@, f.b3)]
  /\ UNCHANGED <<builder, paths, flow>>

\* finalization that leaves the return-tagged blocks unconnected
ConnectNoReturns(cfg, i, exit_id) == cfg

\* connect the return-tagged blocks with ids >= i to the exit block, in id order
RECURSIVE ConnectReturns(_, _, _)
ConnectReturns(cfg, i, exit_id) ==
  IF i \notin DOMAIN cfg.blocks THEN cfg
  ELSE ConnectReturns(IF cfg.blocks[i].block_type = "return"
                      THEN add_edge(cfg, i, exit_id) ELSE cfg,
                      i + 1, exit_id)

\* finalization that forgets the natural (non-return) exit path
FinalizedReturnsOnly(c0, exit_block) ==
  LET exit_id == c0.next_block_id
      c1 == [create_block(c0, "exit") EXCEPT !.exit_blocks = <<exit_id>>]
  IN [ok |-> TRUE, cfg |-> ConnectReturns(c1, 0, exit_id)]

\* build_from_ast once _process_node has returned exit_block: the single exit
\* block and its edges; an unknown exit_block is a KeyError (Finalized.ok false)
Finalized(c0, exit_block) ==
  LET exit_id == c0.next_block_id
      c1 == [create_block(c0, "exit") EXCEPT !.exit_blocks = <<exit_id>>]
      c2 == ConnectReturns(c1, 0, exit_id)
  IN IF exit_block = None THEN [ok |-> TRUE, cfg |-> c2]
     ELSE IF exit_block \notin DOMAIN c2.blocks THEN [ok |-> FALSE, cfg |-> c2]
     ELSE IF c2.blocks[exit_block].block_type # "return"
     THEN [ok |-> TRUE, cfg |-> add_edge(c2, exit_block, exit_id)]
     ELSE [ok |-> TRUE, cfg |-> c2]

\* finalization that does not record the exit block in exit_blocks
FinalizeUnrecorded(t) ==
  /\ th[t].status = "running"
  /\ th[t].stack = <<>>
  /\ LET gid == th[t].cfg
         fin == Finalized(cfgs[gid], th[t].ret)
     IN /\ cfgs' = [cfgs EXCEPT ![gid] = [fin.cfg EXCEPT !.exit_blocks = <<>>]]
        /\ th' = [th EXCEPT ![t] =
                    IF fin.ok THEN Done(@, gid) ELSE Raise(@)]
  /\ UNCHANGED <<builder, paths, flow>>

\* build_from_ast after the body: finalization and return of the graph
Finalize(t) ==
  /\ th[t].status = "running"
  /\ th[t].stack = <<>>
  /\ LET gid == th[t].cfg
         fin == Finalized(cfgs[gid], th[t].ret)
     IN /\ cfgs' = [cfgs EXCEPT ![gid] = fin.cfg]
        /\ th' = [th EXCEPT ![t] =
                    IF fin.ok THEN Done(@, gid) ELSE Raise(@)]
  /\ UNCHANGED <<builder, paths, flow>>

(***************************************************************************)
(* Reading a graph: get_all_paths on a graph no build is working on.       *)
(***************************************************************************)
NoPaths == [cfg |-> 0, value |-> <<>>]

GetAllPaths(gid) ==
  /\ \A t \in DOMAIN th : th[t].status = "running" => th[t].cfg # gid
  /\ cfgs[gid].entry_block = None \/ cfgs[gid].entry_block \in DOMAIN cfgs[gid].blocks
  /\ paths' = [cfg |-> gid, value |-> get_all_paths(cfgs[gid])]
  /\ UNCHANGED <<cfgs, builder, th, flow>>

(***************************************************************************)
(* The graph build_from_ast returns for a function node when nothing else  *)
(* touches the builder: the same code as the steps above, run to the end   *)
(* in one piece.  process_node gives the graph and the returned block id.  *)
(***************************************************************************)
RECURSIVE process_node(_, _, _)
process_node(cfg, node, cur) ==
  IF node.type = "block" THEN
    LET RECURSIVE loop(_, _, _)
        loop(c, i, last) ==
          IF i > Len(node.children) THEN [ok |-> TRUE, cfg |-> c, last |-> last]
          ELSE IF node.children[i].type \in SkippedTypes THEN loop(c, i + 1, last)
          ELSE LET r == process_node(c, node.children[i], last)
               IN IF ~r.ok \/ r.last = None THEN r ELSE loop(r.cfg, i + 1, r.last)
    IN loop(cfg, 1, cur)
  ELSE IF node.type = "if_statement" THEN
    LET true_block == cfg.next_block_id
        false_block == cfg.next_block_id + 1
        merge_block == cfg.next_block_id + 2
        c3 == create_block(create_block(create_block(cfg, "if_true"), "if_false"), "normal")
        condition == child_by_field_name(node, "condition")
        consequence == child_by_field_name(node, "consequence")
        alternative == child_by_field_name(node, "alternative")
        c4 == IF Present(condition)
              THEN [c3 EXCEPT !.blocks[cur] = add_statement(@, <<"if">> \o Text(condition))]
              ELSE c3
        c5 == add_edge(add_edge(c4, cur, true_block), cur, false_block)
        rt == IF Present(consequence) THEN process_node(c5, consequence, true_block)
              ELSE [ok |-> TRUE, cfg |-> c5, last |-> None]
        c6 == IF rt.last # None THEN add_edge(rt.cfg, rt.last, merge_block) ELSE rt.cfg
        rf == IF Present(alternative) THEN process_node(c6, alternative, false_block)
              ELSE [ok |-> TRUE, cfg |-> c6, last |-> false_block]
        c7 == IF rf.last # None THEN add_edge(rf.cfg, rf.last, merge_block) ELSE rf.cfg
    IN IF ~Decodes(condition) THEN [ok |-> FALSE, cfg |-> c3, last |-> None]
       ELSE IF ~rt.ok THEN rt
       ELSE IF ~rf.ok THEN rf
       ELSE [ok |-> TRUE, cfg |-> c7, last |-> merge_block]
  ELSE IF node.type \in {"while_statement", "for_statement"} THEN
    LET condition == child_by_field_name(node, "condition")
        left == child_by_field_name(node, "left")
        right == child_by_field_name(node, "right")
        body == child_by_field_name(node, "body")
        header_type == IF node.type = "while_statement" THEN "loop_header" ELSE "for_header"
        decodes == IF node.type = "while_statement" THEN Decodes(condition)
                   ELSE ~(Present(left) /\ Present(right)) \/ (Decodes(left) /\ Decodes(right))
        stmt == IF node.type = "while_statement"
                THEN (IF Present(condition) THEN <<"while">> \o Text(condition) ELSE <<>>)
                ELSE (IF Present(left) /\ Present(right)
                      THEN <<"for">> \o Text(left) \o <<"in">> \o Text(right)
                      ELSE <<"for", "loop">>)
        loop_header == cfg.next_block_id
        loop_body == cfg.next_block_id + 1
        loop_exit == cfg.next_block_id + 2
        c5 == LoopBlocks(cfg, cur, header_type, stmt)
        rb == IF Present(body) THEN process_node(c5, body, loop_body)
              ELSE [ok |-> TRUE, cfg |-> c5, last |-> None]
        c6 == IF rb.last # None THEN add_edge(rb.cfg, rb.last, loop_header) ELSE rb.cfg
    IN IF ~decodes THEN [ok |-> FALSE, cfg |-> LoopEntered(cfg, cur, header_type), last |-> None]
       ELSE IF ~rb.ok THEN rb
       ELSE [ok |-> TRUE, cfg |-> c6, last |-> loop_exit]
  ELSE IF ~Decodes(node) THEN [ok |-> FALSE, cfg |-> cfg, last |-> None]
  ELSE IF node.type = "return_statement" THEN
    [ok |-> TRUE, cfg |-> [cfg EXCEPT !.blocks[cur] = mark_return(@, Text(node))],
     last |-> None]
  ELSE
    [ok |-> TRUE,
     cfg |-> IF Text(node) # <<>> /\ Text(node) \notin {<<":">>, <<"pass">>}
             THEN [cfg EXCEPT !.blocks[cur] = add_statement(@, Text(node))]
             ELSE cfg,
     last |-> cur]

\* build_from_ast: ok tells whether it returns, and cfg is the graph it returns
build_from_ast(function_node) ==
  LET c0 == ControlFlowGraph(FunctionName(function_node))
      entry == c0.next_block_id
      cfg == [create_block(c0, "entry") EXCEPT !.entry_block = entry]
      body == child_by_field_name(function_node, "body")
      r == process_node(cfg, body, entry)
  IN IF ~Decodes(child_by_field_name(function_node, "name")) THEN [ok |-> FALSE, cfg |-> cfg]
     ELSE IF ~Present(body) THEN [ok |-> TRUE, cfg |-> cfg]
     ELSE IF r.ok THEN Finalized(r.cfg, r.last)
     ELSE [ok |-> FALSE, cfg |-> r.cfg]

(***************************************************************************)
(* ASTVariableExtractor: the occurrence records of a function node, in the *)
(* order extract_from_function appends them.  Columns are not kept.        *)
(***************************************************************************)
VariableInfo(name, line, is_definition, context) ==
  [name |-> name, line |-> line, is_definition |-> is_definition, context |-> context]

\* _extract_parameters
RECURSIVE extract_parameters(_, _)
extract_parameters(params_node, i) ==
  IF i > Len(params_node.children) THEN <<>>
  ELSE LET child == params_node.children[i]
       IN (IF child.type = "identifier" /\ child.text # "self"
           THEN <<VariableInfo(child.text, child.line, TRUE, "parameter")>>
           ELSE <<>>) \o extract_parameters(params_node, i + 1)

\* the record _walk_tree appends for node itself, that counts every identifier as a use
NodeRecordAnyParent(node, parent_type) ==
  IF node.type = "identifier" /\ node.text \notin {"self", "True", "False", "None"}
  THEN <<VariableInfo(node.text, node.line, FALSE, "use")>>
  ELSE <<>>

\* the record _walk_tree appends for node itself, before it walks the children
NodeRecord(node, parent_type) ==
  IF node.type = "assignment" THEN
    LET left == child_by_field_name(node, "left")
    IN IF Present(left) /\ left.type = "identifier"
       THEN <<VariableInfo(left.text, left.line, TRUE, "assignment")>>
       ELSE <<>>
  ELSE IF node.type = "for_statement" THEN
    LET left == child_by_field_name(node, "left")
    IN IF Present(left) /\ left.type = "identifier"
       THEN <<VariableInfo(left.text, left.line, TRUE, "loop_var")>>
       ELSE <<>>
  ELSE IF node.type = "identifier" THEN
    IF parent_type \notin {"None", "assignment", "for_statement"}
       /\ node.text \notin {"self", "True", "False", "None"}
    THEN <<VariableInfo(node.text, node.line, FALSE, "use")>>
    ELSE <<>>
  ELSE <<>>

\* a walk that hands the children the type of the node's parent
RECURSIVE walk_tree_lost_parent(_, _)
walk_tree_lost_parent(node, parent_type) ==
  LET RECURSIVE children(_)
      children(i) == IF i > Len(node.children) THEN <<>>
                     ELSE walk_tree_lost_parent(node.children[i], parent_type) \o children(i + 1)
  IN NodeRecord(node, parent_type) \o children(1)

RECURSIVE walk_tree(_, _)
walk_tree(node, parent_type) ==
  LET RECURSIVE children(_)
      children(i) == IF i > Len(node.children) THEN <<>>
                     ELSE walk_tree(node.children[i], node.type) \o children(i + 1)
  IN NodeRecord(node, parent_type) \o children(1)

extract_from_function(function_node) ==
  LET params == child_by_field_name(function_node, "parameters")
      body == child_by_field_name(function_node, "body")
  IN (IF Present(params) THEN extract_parameters(params, 1) ELSE <<>>)
     \o (IF Present(body) THEN walk_tree(body, function_node.type) ELSE <<>>)

(***************************************************************************)
(* VariableTracker: variables is the dict of Variable objects, kept as the *)
(* sequence of its values in insertion order.                              *)
(***************************************************************************)
Variable(name) == [name |-> name, defined_at |-> <<>>, used_at |-> <<>>]

Tracked(variables, name) == \E i \in 1..Len(variables) : variables[i].name = name

Index(variables, name) == CHOOSE i \in 1..Len(variables) : variables[i].name = name

\* self.variables[name] = Variable(name) unless the name is tracked already
Ensure(variables, name) ==
  IF Tracked(variables, name) THEN variables ELSE Append(variables, Variable(name))

add_definition(variables, name, block_id, stmt_index) ==
  LET v == Ensure(variables, name)
  IN [v EXCEPT ![Index(v, name)].defined_at = Append(@, <<block_id, stmt_index>>)]

add_use(variables, name, block_id, stmt_index) ==
  LET v == Ensure(variables, name)
  IN [v EXCEPT ![Index(v, name)].used_at = Append(@, <<block_id, stmt_index>>)]

get_variable(variables, name) ==
  IF Tracked(variables, name) THEN variables[Index(variables, name)] ELSE Variable("")

get_undefined_uses(variables) ==
  SelectSeq(variables, LAMBDA var : Len(var.used_at) > 0 /\ Len(var.defined_at) = 0)

\* get_unused_variables that forgets to look at the uses
get_defined_variables(variables) ==
  SelectSeq(variables, LAMBDA var : Len(var.defined_at) > 0)

get_unused_variables(variables) ==
  SelectSeq(variables, LAMBDA var : Len(var.defined_at) > 0 /\ Len(var.used_at) = 0)

(***************************************************************************)
(* VariableTracker.extract_from_cfg, the scan of the statement texts a     *)
(* graph holds.  A statement is the sequence of its tokens; a token is     *)
(* identifier-shaped (matched by the pattern of _extract_uses, accepted by *)
(* isidentifier) unless it is a symbol or a numeral.  Two tokens of a left *)
(* side are set apart by a space or by a symbol.                           *)
(***************************************************************************)
Comparisons == {"==", "!=", "<=", ">="}

Symbols == Comparisons \cup {"=", ":", "(", ")", ",", ".", "[", "]"}

Numerals == {"0", "1", "2"}

IdentifierShaped(tok) == tok \notin Symbols \cup Numerals

python_keywords ==
  {"if", "else", "elif", "for", "while", "def", "class", "return",
   "import", "from", "as", "with", "try", "except", "finally",
   "raise", "pass", "break", "continue", "and", "or", "not", "in",
   "is", "True", "False", "None", "self"}

\* '=' in stmt
ContainsEq(stmt) == \E i \in 1..Len(stmt) : stmt[i] \in Comparisons \cup {"="}

\* _extract_assignment: stmt.split('=', 1)[0] is a simple identifier
extract_assignment(variables, stmt, block_id, stmt_index) ==
  IF ~ContainsEq(stmt) THEN variables
  ELSE LET eq == CHOOSE i \in 1..Len(stmt) :
                   /\ stmt[i] \in Comparisons \cup {"="}
                   /\ \A j \in 1..(i - 1) : stmt[j] \notin Comparisons \cup {"="}
           lhs == SubSeq(stmt, 1, eq - 1)
       IN IF stmt[eq] \in {"=", "=="} /\ Len(lhs) = 1 /\ IdentifierShaped(lhs[1])
          THEN add_definition(variables, lhs[1], block_id, stmt_index)
          ELSE variables

\* _extract_uses: every identifier-shaped token from the i-th on that is no keyword
RECURSIVE extract_uses(_, _, _, _, _)
extract_uses(variables, stmt, block_id, stmt_index, i) ==
  IF i > Len(stmt) THEN variables
  ELSE extract_uses(IF IdentifierShaped(stmt[i]) /\ stmt[i] \notin python_keywords
                    THEN add_use(variables, stmt[i], block_id, stmt_index)
                    ELSE variables,
                    stmt, block_id, stmt_index, i + 1)

\* _analyze_statement
analyze_statement(variables, stmt, block_id, stmt_index) ==
  IF stmt = <<>> \/ stmt[1] \in {"#", "\"\"\""} THEN variables
  ELSE LET v1 == IF ContainsEq(stmt) /\ ~(\E i \in 1..Len(stmt) : stmt[i] \in Comparisons)
                 THEN extract_assignment(variables, stmt, block_id, stmt_index)
                 ELSE variables
       IN extract_uses(v1, stmt, block_id, stmt_index, 1)

\* extract_from_cfg: the blocks from block_id on in id order, the statements
\* of a block from position stmt_index on (positions count from 0)
RECURSIVE extract_from_cfg(_, _, _, _)
extract_from_cfg(variables, cfg, block_id, stmt_index) ==
  IF block_id \notin DOMAIN cfg.blocks THEN variables
  ELSE IF stmt_index >= Len(cfg.blocks[block_id].statements)
  THEN extract_from_cfg(variables, cfg, block_id + 1, 0)
  ELSE extract_from_cfg(
         analyze_statement(variables, cfg.blocks[block_id].statements[stmt_index + 1],
                           block_id, stmt_index),
         cfg, block_id, stmt_index + 1)

(***************************************************************************)
(* DataFlowAnalyzer.  The analyzer (self) holds tracker, a reference into  *)
(* trackers, the VariableTracker objects made so far.  A tracker also      *)
(* remembers the call that filled it: the graph, and whether a syntax node *)
(* and the source bytes were supplied.  function_node is NoNode, and code  *)
(* is FALSE, for an argument that is None.                                 *)
(***************************************************************************)
VariableTracker == [variables |-> <<>>, cfg |-> 0, node |-> FALSE, code |-> FALSE]

DataFlowAnalyzer == [tracker |-> 1, trackers |-> <<VariableTracker>>]

\* an analysis that goes on with the tracker of the call before
KeepTracker(self) == self

\* self.tracker = VariableTracker()
NewTracker(self) ==
  [tracker |-> Len(self.trackers) + 1, trackers |-> Append(self.trackers, VariableTracker)]

RECURSIVE Convert(_, _, _)
Convert(variables, var_infos, i) ==
  IF i > Len(var_infos) THEN variables
  ELSE Convert(IF var_infos[i].is_definition
               THEN add_definition(variables, var_infos[i].name, 0, var_infos[i].line)
               ELSE add_use(variables, var_infos[i].name, 0, var_infos[i].line),
               var_infos, i + 1)

\* the analyzer once analyze_function has returned self.tracker
analyze_function(self, cfg, function_node, code) ==
  LET s1 == NewTracker(self)
      variables == s1.trackers[s1.tracker].variables
  IN [s1 EXCEPT !.trackers[s1.tracker].variables =
        IF Present(function_node) /\ code
        THEN Convert(variables, extract_from_function(function_node), 1)
        ELSE extract_from_cfg(variables, cfg, 0, 0)]

\* a client analyses the function whose graph a build has returned, with or
\* without the syntax node and the source bytes
AnalyzeFunction(t) ==
  /\ th[t].status = "done"
  /\ Len(flow.trackers) <= MaxAnalyses
  /\ \E node, code \in BOOLEAN :
       LET self == analyze_function(flow, cfgs[th[t].cfg],
                                    IF node THEN th[t].fn ELSE NoNode, code)
       IN flow' = [self EXCEPT !.trackers[self.tracker].cfg = th[t].cfg,
                               !.trackers[self.tracker].node = node,
                               !.trackers[self.tracker].code = code]
  /\ UNCHANGED <<cfgs, builder, th, paths>>

(***************************************************************************)
(* Assembling a graph by hand, as main() of cfg_builder.py does: the       *)
(* client calls create_block and add_edge and assigns entry_block and      *)
(* exit_blocks itself.  Only a graph no builder produced is assembled.      *)
(***************************************************************************)
HandMade(gid) ==
  \A t \in DOMAIN th : th[t].cfg # gid /\ ~InSeq(gid, th[t].results)

CreateBlock(gid, block_type) ==
  /\ HandMade(gid)
  /\ cfgs[gid].next_block_id < MaxBlocks
  /\ cfgs' = [cfgs EXCEPT ![gid] = create_block(@, block_type)]
  /\ paths' = NoPaths
  /\ UNCHANGED <<builder, th, flow>>

AddEdge(gid, from_block, to_block) ==
  /\ HandMade(gid)
  /\ EdgeCount(add_edge(cfgs[gid], from_block, to_block)) <= MaxEdges
  /\ cfgs' = [cfgs EXCEPT ![gid] = add_edge(@, from_block, to_block)]
  /\ paths' = NoPaths
  /\ UNCHANGED <<builder, th, flow>>

SetEntryBlock(gid, id) ==
  /\ HandMade(gid)
  /\ id \in DOMAIN cfgs[gid].blocks
  /\ cfgs' = [cfgs EXCEPT ![gid].entry_block = id]
  /\ paths' = NoPaths
  /\ UNCHANGED <<builder, th, flow>>

\* exit_blocks is assigned a list of one id wherever the source assigns it
ExitLists(ids) == {<<>>} \cup {<<a>> : a \in ids}

SetExitBlocks(gid, exits) ==
  /\ HandMade(gid)
  /\ cfgs' = [cfgs EXCEPT ![gid].exit_blocks = exits]
  /\ paths' = NoPaths
  /\ UNCHANGED <<builder, th, flow>>

Assemble ==
  \/ \E gid \in DOMAIN cfgs : CreateBlock(gid, "normal")
  \/ \E gid \in DOMAIN cfgs, a, b \in 0..MaxBlocks : AddEdge(gid, a, b)
  \/ \E gid \in DOMAIN cfgs, id \in 0..MaxBlocks : SetEntryBlock(gid, id)
  \/ \E gid \in DOMAIN cfgs :
       \E exits \in ExitLists(DOMAIN cfgs[gid].blocks) : SetExitBlocks(gid, exits)

(***************************************************************************)
(* Spec: one thread either builds the graph of one function node or        *)
(* assembles a graph by hand, and reads the paths of the graph.            *)
(***************************************************************************)
Init ==
  /\ builder = CFGBuilder
  /\ paths = NoPaths
  /\ flow = DataFlowAnalyzer
  /\ \/ /\ cfgs = <<>>
        /\ \E fn \in Functions(MaxSize) \cup LoopExamples \cup {ExampleC, Method} :
             th = <<Thread(<<fn>>)>>
     \/ /\ cfgs = <<ControlFlowGraph("check_user")>>
        /\ th = <<Thread(<<>>)>>

Build ==
  \/ \E t \in DOMAIN th : BuildFromAst(t)
  \/ \E t \in DOMAIN th : ProcessBlock(t)
  \/ \E t \in DOMAIN th : BlockNext(t)
  \/ \E t \in DOMAIN th : BlockChild(t)
  \/ \E t \in DOMAIN th : ProcessReturn(t)
  \/ \E t \in DOMAIN th : ProcessStatement(t)
  \/ \E t \in DOMAIN th : ProcessIf(t)
  \/ \E t \in DOMAIN th : IfTrue(t)
  \/ \E t \in DOMAIN th : IfFalse(t)
  \/ \E t \in DOMAIN th : ProcessWhile(t)
  \/ \E t \in DOMAIN th : WhileBody(t)
  \/ \E t \in DOMAIN th : ProcessFor(t)
  \/ \E t \in DOMAIN th : ForBody(t)
  \/ \E t \in DOMAIN th : Finalize(t)

Next ==
  \/ Build
  \/ Assemble
  \/ \E gid \in DOMAIN cfgs : GetAllPaths(gid)
  \/ \E t \in DOMAIN th : AnalyzeFunction(t)

Spec == Init /\ [][Next]_vars

(***************************************************************************)
(* SpecSeq: one thread builds the graphs of MaxBuilds function nodes one   *)
(* after the other, the same node more than once among them; between two   *)
(* builds the client may replace the CFGBuilder by a fresh one, read the   *)
(* paths of a returned graph and analyse the function built last.          *)
(***************************************************************************)
NewBuilder ==
  /\ \A t \in DOMAIN th : th[t].status # "running"
  /\ builder # CFGBuilder
  /\ builder' = CFGBuilder
  /\ UNCHANGED <<cfgs, th, paths, flow>>

SeqFunctions == {ExampleB, ExampleC, Branchy}

InitSeq ==
  /\ builder = CFGBuilder
  /\ paths = NoPaths
  /\ flow = DataFlowAnalyzer
  /\ cfgs = <<>>
  /\ \E todo \in [1..MaxBuilds -> SeqFunctions] : th = <<Thread(todo)>>

NextSeq ==
  \/ Build
  \/ NewBuilder
  \/ \E gid \in DOMAIN cfgs : GetAllPaths(gid)
  \/ \E t \in DOMAIN th : AnalyzeFunction(t)

SpecSeq == InitSeq /\ [][NextSeq]_vars

(***************************************************************************)
(* CFGAnalyzer.  analyze_file walks the tree of a parsed file in pre-order *)
(* and runs build_from_ast, with the analyzer's one CFGBuilder, on every   *)
(* function_definition node it meets; an exception of a build is caught    *)
(* and the walk goes on.  The walk is kept as the list of the function     *)
(* nodes still to build.  analyze_function runs analyze_file and then      *)
(* looks for the first returned graph with the wanted name.                *)
(***************************************************************************)
RECURSIVE find_functions(_)
find_functions(node) ==
  LET RECURSIVE children(_)
      children(i) == IF i > Len(node.children) THEN <<>>
                     ELSE find_functions(node.children[i]) \o children(i + 1)
  IN (IF node.type = "function_definition" THEN <<node>> ELSE <<>>) \o children(1)

FileThread(file, name) == [Thread(<<>>) EXCEPT !.file = file, !.name = name, !.phase = "start"]

AnalyzeFile(t) ==
  /\ th[t].phase = "start"
  /\ th' = [th EXCEPT ![t].phase = "scan", ![t].todo = find_functions(th[t].file),
                       ![t].results = <<>>, ![t].nodes = <<>>]
  /\ UNCHANGED <<cfgs, builder, paths, flow>>

\* analyze_file has returned
Scanned(t) ==
  /\ th[t].phase = "scan"
  /\ th[t].todo = <<>>
  /\ th[t].status # "running"

\* the loop of analyze_function over the graphs analyze_file returned
FindByName(t) ==
  /\ Scanned(t)
  /\ LET hits == {k \in DOMAIN th[t].results :
                    cfgs[th[t].results[k]].function_name = th[t].name}
     IN th' = [th EXCEPT ![t].phase = "end",
                         ![t].found = IF hits = {} THEN None
                                      ELSE th[t].results[CHOOSE k \in hits :
                                                           \A j \in hits : k <= j]]
  /\ UNCHANGED <<cfgs, builder, paths, flow>>

\* node with every line moved down by d lines
RECURSIVE Moved(_, _)
Moved(node, d) ==
  [node EXCEPT !.line = @ + d,
               !.children = [i \in 1..Len(node.children) |-> Moved(node.children[i], d)]]

\* a function definition without a name
Unnamed ==
  Inner("function_definition", 1,
        <<Tok("def", 1), Parameters(<<"a">>, 1), Tok(":", 1),
          Block(<<ReturnStmt(Ident("b", 2), 2)>>, 2)>>,
        [NoFields EXCEPT !.parameters = 2, !.body = 4])

\* a function g with a statement that cannot be decoded
Bad == FunctionDef("g", <<"a">>, Block(<<AssignStmt("b", Ident("a", 2), 2), BadStmt(3)>>, 2))

\* a function f with the function h defined inside
Outer ==
  FunctionDef("f", <<"a">>,
    Block(<<Moved(FunctionDef("h", <<"a">>, Block(<<ReturnStmt(Ident("b", 2), 2)>>, 2)), 1),
            PassStmt(4)>>, 2))

\* a class with the method f
Class ==
  Inner("class_definition", 1,
        <<Tok("class", 1), Ident("C", 1), Tok(":", 1),
          Block(<<Moved(FunctionDef("f", <<"self">>,
                                    Block(<<ReturnStmt(Ident("b", 2), 2)>>, 2)), 1)>>, 2)>>,
        [NoFields EXCEPT !.name = 2, !.body = 4])

Definitions == {ExampleB, Branchy, Unnamed, Bad, Outer, Class}

\* the files of at most n top-level definitions, one below the other from line l on
RECURSIVE Items(_, _)
Items(l, n) ==
  {<<>>}
  \cup (IF n < 1 THEN {}
        ELSE UNION {{<<Moved(d, l - 1)>> \o r : r \in Items(l + LastLine(d), n - 1)} :
                    d \in Definitions})

Files == {Inner("module", 1, items, NoFields) : items \in Items(1, MaxFunctions)}

FunctionNames == {"f", "g", "h", "unknown", "main"}

InitFile ==
  /\ builder = CFGBuilder
  /\ paths = NoPaths
  /\ flow = DataFlowAnalyzer
  /\ cfgs = <<>>
  /\ \E file \in Files, name \in FunctionNames : th = <<FileThread(file, name)>>

NextFile ==
  \/ Build
  \/ \E t \in DOMAIN th : AnalyzeFile(t)
  \/ \E t \in DOMAIN th : FindByName(t)

SpecFile == InitFile /\ [][NextFile]_vars

(***************************************************************************)
(* SpecPar: two threads run build_from_ast at the same time through one    *)
(* CFGBuilder, as two users of one CFGAnalyzer would; their steps          *)
(* interleave freely.  A step is the code between two calls or returns of  *)
(* _process_node.                                                          *)
(***************************************************************************)
InitPar ==
  /\ builder = CFGBuilder
  /\ paths = NoPaths
  /\ flow = DataFlowAnalyzer
  /\ cfgs = <<>>
  /\ \E f1 \in Functions(ParSize1), f2 \in Functions(ParSize2) :
       th = <<Thread(<<f1>>), Thread(<<f2>>)>>

SpecPar == InitPar /\ [][Build]_vars

(***************************************************************************)
(* Properties.                                                             *)
(***************************************************************************)
Returned(gid) == \E t \in DOMAIN th : InSeq(gid, th[t].results)

Symmetric(cfg) ==
  \A a, b \in DOMAIN cfg.blocks :
    InSeq(b, cfg.blocks[a].successors) <=> InSeq(a, cfg.blocks[b].predecessors)

Tags(cfg) == [i \in DOMAIN cfg.blocks |-> cfg.blocks[i].block_type]

TagCount(cfg, tag) == Cardinality({i \in DOMAIN cfg.blocks : cfg.blocks[i].block_type = tag})

BranchTypes == {"if_statement", "while_statement", "for_statement"}

Body(fn) == child_by_field_name(fn, "body")

\* no if, while or for statement in the body (or no body at all)
StraightLine(fn) ==
  \A i \in 1..Len(Body(fn).children) : Body(fn).children[i].type \notin BranchTypes

\* a block of plain statements whose last statement is a return
EndsInReturn(block) ==
  /\ block.type = "block"
  /\ block.children # <<>>
  /\ \A i \in 1..Len(block.children) : block.children[i].type \notin BranchTypes
  /\ \A i \in 1..Len(block.children) :
       block.children[i].type = "return_statement" <=> i = Len(block.children)

\* the body is one if/else and each of the two branches ends in return
IfElseReturns(fn) ==
  /\ Present(Body(fn))
  /\ Len(Body(fn).children) = 1
  /\ LET stmt == Body(fn).children[1]
         alternative == child_by_field_name(stmt, "alternative")
     IN /\ stmt.type = "if_statement"
        /\ EndsInReturn(child_by_field_name(stmt, "consequence"))
        /\ alternative.type = "else_clause"
        /\ EndsInReturn(child_by_field_name(alternative, "body"))

\* the simple paths of cfg that go on from the simple path p and end at an exit block
RECURSIVE SimplePathsFrom(_, _)
SimplePathsFrom(cfg, p) ==
  LET last == p[Len(p)]
  IN (IF InSeq(last, cfg.exit_blocks) THEN {p} ELSE {})
     \cup UNION {SimplePathsFrom(cfg, Append(p, s)) :
                   s \in SeqToSet(cfg.blocks[last].successors) \ SeqToSet(p)}

SimplePaths(cfg) ==
  IF cfg.entry_block = None THEN {} ELSE SimplePathsFrom(cfg, <<cfg.entry_block>>)

\* C1: at every moment, in every graph (assembled by create_block and add_edge
\* calls, under construction, or returned by build_from_ast), b is a successor of
\* a exactly when a is a predecessor of b.
C1_Symmetric == \A gid \in DOMAIN cfgs : Symmetric(cfgs[gid])

C1_Witness ==
  \E gid \in DOMAIN cfgs :
    /\ HandMade(gid)
    /\ DOMAIN cfgs[gid].blocks = {0, 1}
    /\ cfgs[gid].blocks[0].successors = <<1, 0>>
    /\ cfgs[gid].blocks[1].successors = <<0>>

\* C2: in every graph build_from_ast has returned, a block tagged return has
\* exactly one successor, and that successor is an exit block.
C2_ReturnToExit ==
  \A gid \in DOMAIN cfgs :
    Returned(gid) =>
      \A b \in DOMAIN cfgs[gid].blocks :
        cfgs[gid].blocks[b].block_type = "return" =>
          /\ Len(cfgs[gid].blocks[b].successors) = 1
          /\ InSeq(cfgs[gid].blocks[b].successors[1], cfgs[gid].exit_blocks)

C2_Witness ==
  \E gid \in DOMAIN cfgs :
    /\ Returned(gid)
    /\ TagCount(cfgs[gid], "return") >= 2
    /\ TagCount(cfgs[gid], "loop_header") >= 1

\* C3: every graph build_from_ast has returned, for a function node with or
\* without a body, has an entry block that exists and has no predecessors, and a
\* non-empty exit set whose members exist.
C3_EntryAndExit ==
  \A gid \in DOMAIN cfgs :
    Returned(gid) =>
      /\ cfgs[gid].entry_block \in DOMAIN cfgs[gid].blocks
      /\ cfgs[gid].blocks[cfgs[gid].entry_block].predecessors = <<>>
      /\ cfgs[gid].exit_blocks # <<>>
      /\ SeqToSet(cfgs[gid].exit_blocks) \subseteq DOMAIN cfgs[gid].blocks

\* C4: for a function node whose body is absent or has no statements, the
\* returned graph is exactly an entry block and an exit block with no edge.
C4_DegeneratePair ==
  \A t \in DOMAIN th :
    (th[t].status = "done" /\ Body(th[t].fn).children = <<>>) =>
      LET cfg == cfgs[th[t].cfg]
      IN /\ DOMAIN cfg.blocks = {0, 1}
         /\ cfg.blocks[0].block_type = "entry"
         /\ cfg.blocks[1].block_type = "exit"
         /\ cfg.entry_block = 0
         /\ cfg.exit_blocks = <<1>>
         /\ EdgeCount(cfg) = 0

\* C5: whatever graph was assembled and whichever entry and exit were
\* designated, get_all_paths returns exactly the simple paths from the entry
\* block to an exit block, each of them once.
C5_ExactlySimplePaths ==
  paths.cfg # 0 =>
    /\ SeqToSet(paths.value) = SimplePaths(cfgs[paths.cfg])
    /\ Len(paths.value) = Cardinality(SeqToSet(paths.value))

\* C6: with two build_from_ast calls for different function nodes running at
\* the same time, a call that has ended has returned (not raised), and its graph
\* is and stays the graph the call returns when it runs alone.
C6_ParallelBuildsIsolated ==
  \A t \in DOMAIN th :
    ((\A u \in DOMAIN th \ {t} : th[u].fn # th[t].fn)
      /\ th[t].status \in {"done", "raised"}) =>
        /\ th[t].status = "done"
        /\ cfgs[th[t].cfg] = build_from_ast(th[t].fn).cfg

\* C7: the graph returned for a function whose body holds no if, while or for
\* statement has cyclomatic complexity edges - blocks + 2 = 1.
C7_StraightLineComplexity ==
  \A t \in DOMAIN th :
    (th[t].status = "done" /\ StraightLine(th[t].fn)) =>
      Complexity(cfgs[th[t].cfg]) = 1

C7_Witness ==
  \E t \in DOMAIN th :
    /\ th[t].status = "done"
    /\ StraightLine(th[t].fn)
    /\ Len(Body(th[t].fn).children) >= 3
    /\ Body(th[t].fn).children[3].type = "return_statement"
    /\ cfgs[th[t].cfg].blocks[0].block_type = "return"
    /\ Len(cfgs[th[t].cfg].blocks[0].statements) = 3

\* C8: for a body that is one if/else whose two branches end in return, the
\* graph has cyclomatic complexity 2 and get_all_paths returns exactly two
\* paths, one through the true block and one through the false block.
C8_IfElseTwoPaths ==
  \A t \in DOMAIN th :
    (th[t].status = "done" /\ IfElseReturns(th[t].fn)) =>
      LET cfg == cfgs[th[t].cfg]
          ps == get_all_paths(cfg)
      IN /\ Complexity(cfg) = 2
         /\ Len(ps) = 2
         /\ \E i, j \in 1..Len(ps) :
              /\ InSeq(1, ps[i]) /\ ~InSeq(2, ps[i])
              /\ InSeq(2, ps[j]) /\ ~InSeq(1, ps[j])
         /\ paths.cfg = th[t].cfg => paths.value = ps

C8_Witness ==
  \E t \in DOMAIN th :
    /\ th[t].status = "done"
    /\ IfElseReturns(th[t].fn)
    /\ Size(th[t].fn) = MaxSize
    /\ paths.cfg = th[t].cfg
    /\ Len(paths.value) = 2

Defs(variables, name) == Len(get_variable(variables, name).defined_at)

Uses(variables, name) == Len(get_variable(variables, name).used_at)

Names(variables) == [i \in 1..Len(variables) |-> variables[i].name]

\* the variables of the trackers analyze_function returned for graph gid when
\* it was called with the syntax node and the source bytes
WithNode(gid) ==
  {flow.trackers[k].variables :
     k \in {j \in DOMAIN flow.trackers :
              /\ flow.trackers[j].cfg = gid
              /\ flow.trackers[j].node
              /\ flow.trackers[j].code}}

\* C10 as claimed: analysed with its syntax node, the function with parameter a
\* and body  b = a ; return b  gives a tracker with a: 0 definitions, 1 use,
\* b: 1 definition, 1 use, and empty undefined-use and unused-variable lists.
C10_ExampleB ==
  \A t \in DOMAIN th :
    (th[t].status = "done" /\ th[t].fn = ExampleB) =>
      \A v \in WithNode(th[t].cfg) :
        /\ Defs(v, "a") = 0 /\ Uses(v, "a") = 1
        /\ Defs(v, "b") = 1 /\ Uses(v, "b") = 1
        /\ get_undefined_uses(v) = <<>>
        /\ get_unused_variables(v) = <<>>

\* C10 as amended: the tracker holds a with 1 definition (the parameter, line 1)
\* and 0 uses, b with 1 definition (line 2) and 1 use (line 3); the
\* undefined-use list is empty and the unused-variable list is exactly [a].
C10_ExampleBAmended ==
  \A t \in DOMAIN th :
    (th[t].status = "done" /\ th[t].fn = ExampleB) =>
      \A v \in WithNode(th[t].cfg) :
        /\ Names(v) = <<"a", "b">>
        /\ get_variable(v, "a").defined_at = <<<<0, 1>>>>
        /\ get_variable(v, "a").used_at = <<>>
        /\ get_variable(v, "b").defined_at = <<<<0, 2>>>>
        /\ get_variable(v, "b").used_at = <<<<0, 3>>>>
        /\ get_undefined_uses(v) = <<>>
        /\ Names(get_unused_variables(v)) = <<"a">>

C10_Witness ==
  \E t \in DOMAIN th :
    /\ th[t].status = "done"
    /\ th[t].fn = ExampleB
    /\ \E v \in WithNode(th[t].cfg) : Len(v) = 2

\* the trackers analyze_function has returned
Returns == {flow.trackers[k] : k \in {j \in DOMAIN flow.trackers : flow.trackers[j].cfg # 0}}

\* the trackers the scan of the statement texts has filled
Fallbacks == {tr \in Returns : ~(tr.node /\ tr.code)}

Count(s, x) == Cardinality({i \in 1..Len(s) : s[i] = x})

\* C11: for the function whose body is  y = 1  the build ends without error, the
\* entry block has an edge to the exit block, and y is in the unused-variable
\* list of every tracker analyze_function returns for the graph.
C11_ExampleC ==
  \A t \in DOMAIN th :
    (th[t].fn = ExampleC /\ th[t].status \in {"done", "raised"}) =>
      LET cfg == cfgs[th[t].cfg]
      IN /\ th[t].status = "done"
         /\ cfg.exit_blocks = <<1>>
         /\ cfg.blocks[1].block_type = "exit"
         /\ cfg.blocks[0].successors = <<1>>
         /\ \A tr \in Returns :
              tr.cfg = th[t].cfg =>
                InSeq("y", Names(get_unused_variables(tr.variables)))

\* C12: in a tracker filled by the scan of the statement texts, a statement
\* x = expr  at position i of block b gives x the definition site (b, i) once,
\* and gives x the use site (b, i) once for each occurrence of x in expr only.
C12_FallbackLeftSideNoUse ==
  \A tr \in Fallbacks :
    \A b \in DOMAIN cfgs[tr.cfg].blocks :
      \A i \in 1..Len(cfgs[tr.cfg].blocks[b].statements) :
        LET stmt == cfgs[tr.cfg].blocks[b].statements[i]
            x == get_variable(tr.variables, stmt[1])
        IN (Len(stmt) >= 3 /\ stmt[2] = "=" /\ IdentifierShaped(stmt[1])) =>
             /\ Count(x.defined_at, <<b, i - 1>>) = 1
             /\ Count(x.used_at, <<b, i - 1>>) = Count(SubSeq(stmt, 3, Len(stmt)), stmt[1])

\* C13: a tracker analyze_function returned for a call that supplied the syntax
\* node holds exactly what the records of ASTVariableExtractor give, whatever
\* the statement texts of the graph are.
C13_NodeMeansExtractor ==
  \A t \in DOMAIN th :
    \A tr \in Returns :
      (tr.cfg = th[t].cfg /\ tr.node) =>
        tr.variables = Convert(<<>>, extract_from_function(th[t].fn), 1)

\* C15: in every graph, once add_edge(from, to) has been called, calling it
\* again with the same pair leaves the graph (successor lists, predecessor
\* lists, edge count) as it is.
C15_AddEdgeIdempotent ==
  \A gid \in DOMAIN cfgs :
    \A from_block, to_block \in 0..MaxBlocks :
      LET once == add_edge(cfgs[gid], from_block, to_block)
          twice == add_edge(once, from_block, to_block)
      IN /\ twice = once
         /\ EdgeCount(twice) = EdgeCount(once)
         /\ (/\ from_block \in DOMAIN cfgs[gid].blocks
             /\ InSeq(to_block, cfgs[gid].blocks[from_block].successors)) => once = cfgs[gid]

C15_Witness ==
  \E gid \in DOMAIN cfgs :
    /\ HandMade(gid)
    /\ DOMAIN cfgs[gid].blocks = {0, 1}
    /\ cfgs[gid].blocks[0].successors = <<0, 1>>
    /\ cfgs[gid].blocks[0].predecessors = <<0>>
    /\ EdgeCount(cfgs[gid]) = 2

\* C19: in every tracker analyze_function has returned, the undefined-use list
\* holds exactly the variables with a use and no definition, the
\* unused-variable list exactly those with a definition and no use, no
\* variable is in both, every variable has a definition site or a use site,
\* and no name is tracked twice.
C19_DerivedLists ==
  \A tr \in Returns :
    LET v == tr.variables
        all == SeqToSet(Names(v))
        undefined == SeqToSet(Names(get_undefined_uses(v)))
        unused == SeqToSet(Names(get_unused_variables(v)))
    IN /\ undefined = {n \in all : Uses(v, n) >= 1 /\ Defs(v, n) = 0}
       /\ unused = {n \in all : Defs(v, n) >= 1 /\ Uses(v, n) = 0}
       /\ undefined \cap unused = {}
       /\ \A n \in all : Defs(v, n) + Uses(v, n) >= 1
       /\ Cardinality(all) = Len(v)
       /\ Len(get_undefined_uses(v)) = Cardinality(undefined)
       /\ Len(get_unused_variables(v)) = Cardinality(unused)

C19_Witness ==
  \E tr \in Returns :
    /\ get_undefined_uses(tr.variables) # <<>>
    /\ get_unused_variables(tr.variables) # <<>>
    /\ \E n \in SeqToSet(Names(tr.variables)) :
         Defs(tr.variables, n) >= 1 /\ Uses(tr.variables, n) >= 2

\* the statement texts a block of plain statements puts into its block: up to
\* the first return, without pass
RECURSIVE PlainTexts(_, _)
PlainTexts(block, i) ==
  IF i > Len(block.children) THEN <<>>
  ELSE (IF block.children[i].type = "pass_statement" THEN <<>>
        ELSE <<Text(block.children[i])>>)
       \o (IF block.children[i].type = "return_statement" THEN <<>>
           ELSE PlainTexts(block, i + 1))

HasReturn(block) ==
  \E i \in 1..Len(block.children) : block.children[i].type = "return_statement"

NoBranch(block) ==
  /\ block.type = "block"
  /\ \A i \in 1..Len(block.children) : block.children[i].type \notin BranchTypes

\* the body is one if statement with an else clause, both branches plain
IfElsePlain(fn) ==
  /\ Present(Body(fn))
  /\ Len(Body(fn).children) = 1
  /\ LET stmt == Body(fn).children[1]
         alternative == child_by_field_name(stmt, "alternative")
     IN /\ stmt.type = "if_statement"
        /\ NoBranch(child_by_field_name(stmt, "consequence"))
        /\ alternative.type = "else_clause"
        /\ NoBranch(child_by_field_name(alternative, "body"))

\* C20: for a body that is one if/else with plain branches, the if creates the
\* three blocks true (1), false (2) and merge (3) after the entry block (0); the
\* entry block gets the condition text and the edges to true and false; the
\* statements of the consequence are in true and the statements of the else
\* branch in false; each of the two has its edge to merge unless its branch
\* ended in return, and merge, the current block, is connected to the exit.
C20_IfWithElse ==
  \A t \in DOMAIN th :
    (th[t].status = "done" /\ IfElsePlain(th[t].fn)) =>
      LET cfg == cfgs[th[t].cfg]
          stmt == Body(th[t].fn).children[1]
          consequence == child_by_field_name(stmt, "consequence")
          else_body == child_by_field_name(child_by_field_name(stmt, "alternative"), "body")
      IN /\ DOMAIN cfg.blocks = 0..4
         /\ cfg.blocks[0].statements =
              <<(<<"if">> \o Text(child_by_field_name(stmt, "condition")))>>
         /\ cfg.blocks[0].successors = <<1, 2>>
         /\ cfg.blocks[1].statements = PlainTexts(consequence, 1)
         /\ cfg.blocks[2].statements = PlainTexts(else_body, 1)
         /\ InSeq(3, cfg.blocks[1].successors) <=> ~HasReturn(consequence)
         /\ InSeq(3, cfg.blocks[2].successors) <=> ~HasReturn(else_body)
         /\ cfg.blocks[3].successors = <<4>>

\* C14: whenever two calls of build_from_ast got the same function node, with
\* the same builder or a fresh one and whatever was built in between, the two
\* graphs have the same name, block ids, tags, statements, edges, entry, exit
\* set and block count.
C14_RebuildSame ==
  \A t \in DOMAIN th :
    \A i, j \in DOMAIN th[t].results :
      th[t].nodes[i] = th[t].nodes[j] =>
        /\ cfgs[th[t].results[i]] = cfgs[th[t].results[j]]
        /\ Tags(cfgs[th[t].results[i]]) = Tags(cfgs[th[t].results[j]])

C14_Witness ==
  \E t \in DOMAIN th :
    /\ Len(th[t].results) = 3
    /\ th[t].nodes = <<Branchy, ExampleB, Branchy>>
    /\ th[t].results = <<1, 2, 3>>
    /\ builder = CFGBuilder

\* the identifier-shaped tokens of the text of a node
Identifiers(node) == {tok \in SeqToSet(Text(node)) : IdentifierShaped(tok)}

\* the function node the graph gid was built from
NodeOf(gid) ==
  LET t == CHOOSE u \in DOMAIN th : InSeq(gid, th[u].results)
      i == CHOOSE k \in DOMAIN th[t].results : th[t].results[k] = gid
  IN th[t].nodes[i]

\* C18: no step (a later build, get_all_paths, analyze_function, a new builder)
\* changes a graph build_from_ast has returned or a tracker analyze_function
\* has returned, and a tracker holds only names of the function it was made for.
C18_ReturnedValuesStay ==
  /\ [][/\ \A gid \in DOMAIN cfgs : Returned(gid) => cfgs'[gid] = cfgs[gid]
        /\ \A k \in DOMAIN flow.trackers :
             flow.trackers[k].cfg # 0 => flow.trackers'[k] = flow.trackers[k]]_vars
  /\ [](\A tr \in Returns :
          SeqToSet(Names(tr.variables)) \subseteq Identifiers(NodeOf(tr.cfg)))

C18_Witness ==
  /\ Len(cfgs) = 2
  /\ Returned(1) /\ Returned(2)
  /\ NodeOf(1) = ExampleB /\ NodeOf(2) = ExampleC
  /\ paths.cfg = 1
  /\ Len(flow.trackers) = 3
  /\ flow.trackers[2].cfg = 1 /\ flow.trackers[2].node /\ flow.trackers[2].code
  /\ flow.trackers[3].cfg = 2 /\ ~flow.trackers[3].node

RECURSIVE Descendants(_)
Descendants(node) ==
  {node} \cup UNION {Descendants(node.children[i]) : i \in 1..Len(node.children)}

\* the function_definition nodes of a tree
FunctionNodes(file) == {n \in Descendants(file) : n.type = "function_definition"}

Builds(function_node) == build_from_ast(function_node).ok

\* the function nodes of s that build, in the order of s
RECURSIVE Building(_)
Building(s) ==
  IF s = <<>> THEN <<>>
  ELSE (IF Builds(Head(s)) THEN <<Head(s)>> ELSE <<>>) \o Building(Tail(s))

Named(file, name) ==
  {n \in FunctionNodes(file) :
     Present(child_by_field_name(n, "name")) /\ child_by_field_name(n, "name").text = name}

\* C17: analyze_function(file, name) returns None when no function definition
\* of the file has the name; when one that builds has it, it returns the graph
\* of the first such function.
C17_LookupByName ==
  \A t \in DOMAIN th :
    th[t].phase = "end" =>
      LET named == Named(th[t].file, th[t].name)
          building == {n \in named : Builds(n)}
      IN /\ named = {} => th[t].found = None
         /\ building # {} =>
              /\ th[t].found \in DOMAIN cfgs
              /\ cfgs[th[t].found] =
                   build_from_ast(CHOOSE n \in building :
                                    \A m \in building : n.line <= m.line).cfg

\* the texts of all statements of a block
AllTexts(block) == [i \in 1..Len(block.children) |-> Text(block.children[i])]

\* the body is one while or for loop over plain statements without return
OneLoopPlain(fn) ==
  /\ Present(Body(fn))
  /\ Len(Body(fn).children) = 1
  /\ Body(fn).children[1].type \in {"while_statement", "for_statement"}
  /\ NoBranch(child_by_field_name(Body(fn).children[1], "body"))
  /\ ~HasReturn(child_by_field_name(Body(fn).children[1], "body"))

\* the blocks and edges of a loop whose body is plain: entry (0), header (1),
\* body (2), loop exit (3) and exit (4), the body with the back-edge only
LoopShape(cfg) ==
  /\ DOMAIN cfg.blocks = 0..4
  /\ cfg.blocks[0].successors = <<1>>
  /\ cfg.blocks[1].successors = <<2, 3>>
  /\ cfg.blocks[2].successors = <<1>>
  /\ cfg.blocks[3].successors = <<4>>
  /\ cfg.blocks[4].successors = <<>>
  /\ cfg.blocks[2].block_type = "loop_body"

\* C24 as claimed: in a loop body of plain statements (assignments, pass, break,
\* continue) the text of every statement is appended to the loop body block, no
\* block and no edge is added, and the blocks after the loop start at the
\* loop exit.
C24_PlainStatements ==
  \A t \in DOMAIN th :
    (th[t].status = "done" /\ OneLoopPlain(th[t].fn)) =>
      /\ LoopShape(cfgs[th[t].cfg])
      /\ cfgs[th[t].cfg].blocks[2].statements =
           AllTexts(child_by_field_name(Body(th[t].fn).children[1], "body"))

\* C24 as amended: the text of every such statement except pass is appended
\* to the loop body block, a pass statement appends nothing, and no statement
\* of them, break and continue included, adds a block or an edge.
C24_PlainStatementsButPass ==
  \A t \in DOMAIN th :
    (th[t].status = "done" /\ OneLoopPlain(th[t].fn)) =>
      /\ LoopShape(cfgs[th[t].cfg])
      /\ cfgs[th[t].cfg].blocks[2].statements =
           PlainTexts(child_by_field_name(Body(th[t].fn).children[1], "body"), 1)

C24_Witness ==
  \E t \in DOMAIN th :
    /\ th[t].status = "done"
    /\ OneLoopPlain(th[t].fn)
    /\ cfgs[th[t].cfg].blocks[2].statements = <<<<"break">>, <<"continue">>>>

\* the body is one if statement with one elif clause, both branches plain
IfElifPlain(fn) ==
  /\ Present(Body(fn))
  /\ Len(Body(fn).children) = 1
  /\ LET stmt == Body(fn).children[1]
         alternative == child_by_field_name(stmt, "alternative")
     IN /\ stmt.type = "if_statement"
        /\ NoBranch(child_by_field_name(stmt, "consequence"))
        /\ alternative.type = "elif_clause"
        /\ NoBranch(child_by_field_name(alternative, "consequence"))

\* the nested form of  if c: A elif d: B,  that is  if c: A else: if d: B
NestedForm(fn) ==
  LET stmt == Body(fn).children[1]
      elif == child_by_field_name(stmt, "alternative")
      inner_if == IfStmt(child_by_field_name(elif, "condition"),
                         child_by_field_name(elif, "consequence"), <<>>, elif.line + 1)
  IN FunctionDef("f", <<"a">>,
       Block(<<IfStmt(child_by_field_name(stmt, "condition"),
                      child_by_field_name(stmt, "consequence"),
                      <<ElseClause(Block(<<inner_if>>, elif.line + 1), elif.line)>>,
                      stmt.line)>>, 2))

LoopFirst(fn) ==
  /\ Present(Body(fn))
  /\ Body(fn).children # <<>>
  /\ Body(fn).children[1].type \in {"while_statement", "for_statement"}

\* the function fn with its leading for loop replaced by a while loop over the
\* same body
AsWhile(fn) ==
  LET loop == Body(fn).children[1]
  IN FunctionDef("f", <<"a">>,
       Block(<<WhileStmt(Ident("c", loop.line), child_by_field_name(loop, "body"),
                         loop.line)>>
             \o SubSeq(Body(fn).children, 2, Len(Body(fn).children)), 2))

\* C22: for a body that starts with a loop, processed from the entry block (0):
\* the header (1), the body block (2) and the loop exit (3) are created with
\* the edges 0->1, 1->2 and 1->3; the header gets a back-edge from a block of
\* the body exactly when the statement sequence of the body has no return; the
\* loop exit is the block the following statements go to; and a for loop gives
\* the graph of the while loop over the same body except for the tag and the
\* text of the header.
C22_LoopTopology ==
  \A t \in DOMAIN th :
    (th[t].status = "done" /\ LoopFirst(th[t].fn)) =>
      LET cfg == cfgs[th[t].cfg]
          fn == th[t].fn
          loop == Body(fn).children[1]
          body == child_by_field_name(loop, "body")
          is_for == loop.type = "for_statement"
          as_while == build_from_ast(AsWhile(fn)).cfg
          rest_plain == \A i \in 2..Len(Body(fn).children) :
                          Body(fn).children[i].type \notin BranchTypes
      IN /\ cfg.blocks[0].successors = <<1>>
         /\ cfg.blocks[1].successors = <<2, 3>>
         /\ cfg.blocks[1].block_type = IF is_for THEN "for_header" ELSE "loop_header"
         /\ cfg.blocks[2].block_type \in {"loop_body", "return"}
         /\ NoBranch(body) => (cfg.blocks[2].block_type = "return" <=> HasReturn(body))
         /\ cfg.blocks[2].predecessors = <<1>>
         /\ cfg.blocks[3].predecessors = <<1>>
         /\ IF HasReturn(body)
            THEN cfg.blocks[1].predecessors = <<0>>
            ELSE /\ Len(cfg.blocks[1].predecessors) = 2
                 /\ cfg.blocks[1].predecessors[1] = 0
                 /\ cfg.blocks[1].predecessors[2] \in {2} \cup (4..(cfg.next_block_id - 1))
                 /\ NoBranch(body) => cfg.blocks[1].predecessors[2] = 2
         /\ rest_plain => cfg.blocks[3].statements = PlainTexts(Body(fn), 2)
         /\ is_for =>
              cfg = [as_while EXCEPT
                       !.blocks[1].block_type = "for_header",
                       !.blocks[1].statements =
                          <<(<<"for">> \o Text(child_by_field_name(loop, "left"))
                             \o <<"in">> \o Text(child_by_field_name(loop, "right")))>>]

\* a for loop with a back-edge from the merge block of an if statement in its
\* body
C22_Witness ==
  \E t \in DOMAIN th :
    /\ th[t].status = "done"
    /\ LoopFirst(th[t].fn)
    /\ Body(th[t].fn).children[1].type = "for_statement"
    /\ cfgs[th[t].cfg].blocks[1].predecessors = <<0, 6>>

\* the statements of a sequence up to its first return statement
UpToReturn(stmts) ==
  LET returns == {i \in 1..Len(stmts) : stmts[i].type = "return_statement"}
  IN IF returns = {} THEN stmts
     ELSE SubSeq(stmts, 1, CHOOSE i \in returns : \A j \in returns : i <= j)

\* the node without the statements that follow a return statement in the
\* statement sequences of the body, of the consequences and of the loop bodies
RECURSIVE Truncated(_)
Truncated(node) ==
  IF node.type = "block"
  THEN LET kept == UpToReturn(node.children)
       IN [node EXCEPT !.children = [i \in 1..Len(kept) |-> Truncated(kept[i])]]
  ELSE IF node.type \in BranchTypes \cup {"function_definition"}
  THEN [node EXCEPT !.children =
          [i \in 1..Len(node.children) |->
             IF node.children[i].type = "block" THEN Truncated(node.children[i])
             ELSE node.children[i]]]
  ELSE node

\* C23: the statements that follow a return statement in a processed statement
\* sequence add nothing: the graph is the one built from the function without
\* them; the text of the return is the last statement of the block the return
\* tagged, and that block has its edge to the exit block and no other (no
\* merge edge and no back-edge).
C23_NothingAfterReturn ==
  \A t \in DOMAIN th :
    th[t].status = "done" =>
      LET cfg == cfgs[th[t].cfg]
      IN /\ cfg = build_from_ast(Truncated(th[t].fn)).cfg
         /\ \A i \in DOMAIN cfg.blocks :
              cfg.blocks[i].block_type = "return" =>
                /\ cfg.blocks[i].statements # <<>>
                /\ \A k \in 1..Len(cfg.blocks[i].statements) :
                     cfg.blocks[i].statements[k][1] = "return"
                       <=> k = Len(cfg.blocks[i].statements)
                /\ cfg.blocks[i].successors = cfg.exit_blocks

\* a loop whose body has statements after its return
C23_Witness ==
  \E t \in DOMAIN th :
    /\ th[t].status = "done"
    /\ LoopFirst(th[t].fn)
    /\ Truncated(th[t].fn) # th[t].fn
    /\ LET body == child_by_field_name(Body(th[t].fn).children[1], "body")
       IN /\ Len(body.children) = 2
          /\ body.children[1].type = "return_statement"
    /\ cfgs[th[t].cfg].blocks[2].block_type = "return"
    /\ cfgs[th[t].cfg].blocks[1].predecessors = <<0>>

\* C25: in a graph built from a function with a body, exit_blocks holds one id,
\* that block is the only one tagged exit and has no successors, and its
\* predecessors are, without repetition, the return-tagged blocks and, exactly
\* when the statement sequence of the body has no return, one more block: the
\* block the body ended in, whose only successor is the exit block.
C25_SingleExit ==
  \A t \in DOMAIN th :
    (th[t].status = "done" /\ Present(Body(th[t].fn))) =>
      LET cfg == cfgs[th[t].cfg]
          e == cfg.exit_blocks[1]
          preds == SeqToSet(cfg.blocks[e].predecessors)
          returning == {i \in DOMAIN cfg.blocks : cfg.blocks[i].block_type = "return"}
      IN /\ Len(cfg.exit_blocks) = 1
         /\ e \in DOMAIN cfg.blocks
         /\ cfg.blocks[e].successors = <<>>
         /\ {i \in DOMAIN cfg.blocks : cfg.blocks[i].block_type = "exit"} = {e}
         /\ Len(cfg.blocks[e].predecessors) = Cardinality(preds)
         /\ returning \subseteq preds
         /\ Cardinality(preds \ returning) = IF HasReturn(Body(th[t].fn)) THEN 0 ELSE 1
         /\ \A p \in preds \ returning :
              /\ cfg.blocks[p].successors = <<e>>
              /\ StraightLine(th[t].fn) => p = cfg.entry_block

\* two returning blocks and the merge block of the last if statement lead to
\* the exit block
C25_Witness ==
  \E t \in DOMAIN th :
    /\ th[t].status = "done"
    /\ Present(Body(th[t].fn))
    /\ ~HasReturn(Body(th[t].fn))
    /\ cfgs[th[t].cfg].exit_blocks = <<7>>
    /\ cfgs[th[t].cfg].blocks[7].predecessors = <<1, 4, 6>>

\* the number of if, while and for statements of a node that do not follow a
\* return statement in their statement sequence
RECURSIVE BranchCount(_)
BranchCount(node) ==
  LET stmts == IF node.type = "block" THEN UpToReturn(node.children) ELSE node.children
      RECURSIVE sum(_)
      sum(i) == IF i > Len(stmts) THEN 0 ELSE BranchCount(stmts[i]) + sum(i + 1)
  IN (IF node.type \in BranchTypes THEN 1 ELSE 0) + sum(1)

\* C26: the cyclomatic complexity of every built graph, edges - blocks + 2 with
\* edges the sum of the out-degrees, is 1 plus the number of if, while and for
\* statements of the function that do not follow a return in their statement
\* sequence.
C26_Complexity ==
  \A t \in DOMAIN th :
    th[t].status = "done" =>
      /\ Complexity(cfgs[th[t].cfg]) = EdgeCount(cfgs[th[t].cfg]) - Cardinality(DOMAIN cfgs[th[t].cfg].blocks) + 2
      /\ Complexity(cfgs[th[t].cfg]) = 1 + BranchCount(th[t].fn)

\* the body is one while or for loop and no return is anywhere in its body
OneLoopNoReturn(fn) ==
  /\ Present(Body(fn))
  /\ Len(Body(fn).children) = 1
  /\ Body(fn).children[1].type \in {"while_statement", "for_statement"}
  /\ ~InSeq("return", Text(child_by_field_name(Body(fn).children[1], "body")))

OneIfNoReturn(fn) ==
  /\ Present(Body(fn))
  /\ Len(Body(fn).children) = 1
  /\ Body(fn).children[1].type = "if_statement"
  /\ NoBranch(child_by_field_name(Body(fn).children[1], "consequence"))
  /\ ~InSeq("return", Text(Body(fn).children[1]))

\* C28: on every graph, those with back-edges and self-loops included,
\* get_all_paths ends with a finite list of paths, none longer than the
\* number of blocks plus one and none with a block more than twice; and for an
\* if statement whose branches do not return the merge block (3) is on two
\* returned paths, one through the true block (1) and one through the false
\* block (2).
C28_PathsTerminate ==
  /\ \A gid \in DOMAIN cfgs :
       (cfgs[gid].entry_block = None \/ cfgs[gid].entry_block \in DOMAIN cfgs[gid].blocks) =>
         LET ps == get_all_paths(cfgs[gid])
         IN \A i \in 1..Len(ps) :
              /\ Len(ps[i]) <= Cardinality(DOMAIN cfgs[gid].blocks) + 1
              /\ \A b \in DOMAIN cfgs[gid].blocks : Count(ps[i], b) <= 2
  /\ \A t \in DOMAIN th :
       (th[t].status = "done" /\ OneIfNoReturn(th[t].fn)) =>
         /\ get_all_paths(cfgs[th[t].cfg]) = <<<<0, 1, 3, 4>>, <<0, 2, 3, 4>>>>
         /\ paths.cfg = th[t].cfg => paths.value = get_all_paths(cfgs[th[t].cfg])

\* paths were taken from the graph of an if statement with an else clause, and
\* the merge block is on both
C28_Witness ==
  \E t \in DOMAIN th :
    /\ th[t].status = "done"
    /\ th[t].cfg = paths.cfg
    /\ OneIfNoReturn(th[t].fn)
    /\ Present(child_by_field_name(Body(th[t].fn).children[1], "alternative"))
    /\ Len(paths.value) = 2
    /\ Count(paths.value[1], 3) = 1
    /\ Count(paths.value[2], 3) = 1

\* what the i-th child of parent yields when it is a bare identifier: a
\* definition as the left side of an assignment or the target of a for
\* statement, a use under any other parent unless it is a reserved name, and
\* nothing otherwise
IdentifierRecord(parent, i) ==
  LET node == parent.children[i]
      is_left == parent.fields.left = i
  IN IF node.type # "identifier" THEN <<>>
     ELSE IF parent.type = "assignment"
     THEN (IF is_left THEN <<VariableInfo(node.text, node.line, TRUE, "assignment")>>
           ELSE <<>>)
     ELSE IF parent.type = "for_statement"
     THEN (IF is_left THEN <<VariableInfo(node.text, node.line, TRUE, "loop_var")>>
           ELSE <<>>)
     ELSE IF node.text \in {"self", "True", "False", "None"} THEN <<>>
     ELSE <<VariableInfo(node.text, node.line, FALSE, "use")>>

\* the records of the identifiers below parent, in source order
RECURSIVE IdentifierRecords(_)
IdentifierRecords(parent) ==
  LET RECURSIVE each(_)
      each(i) == IF i > Len(parent.children) THEN <<>>
                 ELSE IdentifierRecord(parent, i)
                      \o IdentifierRecords(parent.children[i]) \o each(i + 1)
  IN each(1)

\* the number of records of rs with the given name and kind
RecordCount(rs, name, is_definition) ==
  Cardinality({i \in 1..Len(rs) :
                 rs[i].name = name /\ rs[i].is_definition = is_definition})

\* C29: a tracker filled from the syntax node of a built function holds, for
\* every name, as many definitions as the function has parameters of that name
\* plus identifiers of that name that are the left side of an assignment or the
\* target of a for statement, and as many uses as it has identifiers of that
\* name under another parent than an assignment or a for statement (self,
\* True, False and None left out); every identifier of the body gives at most
\* one record, and the records are those of the walk, in its order.
C29_IdentifierRecords ==
  \A t \in DOMAIN th :
    (th[t].status = "done" /\ Present(Body(th[t].fn))) =>
      LET fn == th[t].fn
          params == extract_parameters(child_by_field_name(fn, "parameters"), 1)
          expected == params \o IdentifierRecords(Body(fn))
      IN /\ extract_from_function(fn) = expected
         /\ \A v \in WithNode(th[t].cfg) :
              /\ SeqToSet(Names(v)) = {expected[i].name : i \in 1..Len(expected)}
              /\ \A n \in SeqToSet(Names(v)) :
                   /\ Defs(v, n) = RecordCount(expected, n, TRUE)
                   /\ Uses(v, n) = RecordCount(expected, n, FALSE)

\* a tracker filled from the node of a function with a for loop whose iterable
\* is a bare identifier: the target is defined, the iterable is not a use
C29_Witness ==
  \E t \in DOMAIN th :
    /\ th[t].status = "done"
    /\ LoopFirst(th[t].fn)
    /\ Body(th[t].fn).children[1].type = "for_statement"
    /\ \E v \in WithNode(th[t].cfg) :
         /\ Defs(v, "i") = 1
         /\ Uses(v, "a") = 0
         /\ Defs(v, "a") = 1

\* C30: at every moment of a sequence of builds, with one builder reused or a
\* new one in between, the block ids of every graph are 0..n-1 for its n
\* blocks, each block holds its own id, the entry block is 0, and once the
\* build of a function with a body has returned the exit block is n-1; the
\* graph is the one the function gives when it is built first.
C30_BlockIds ==
  \A gid \in DOMAIN cfgs :
    LET cfg == cfgs[gid]
    IN /\ DOMAIN cfg.blocks = 0..(cfg.next_block_id - 1)
       /\ \A i \in DOMAIN cfg.blocks : cfg.blocks[i].id = i
       /\ cfg.entry_block = 0
       /\ cfg.blocks[0].block_type \in {"entry", "return"}
       /\ \A t \in DOMAIN th :
            InSeq(gid, th[t].results) =>
              /\ Present(Body(NodeOf(gid))) => cfg.exit_blocks = <<cfg.next_block_id - 1>>
              /\ cfg = build_from_ast(NodeOf(gid)).cfg

\* a small graph built after a larger one: ids start at 0 again
C30_Witness ==
  \E t \in DOMAIN th :
    /\ th[t].results = <<1, 2, 3>>
    /\ th[t].nodes = <<Branchy, Branchy, ExampleB>>
    /\ builder.current_cfg = 3
    /\ DOMAIN cfgs[2].blocks = 0..10
    /\ DOMAIN cfgs[3].blocks = 0..1

====
